---- MODULE Spec2Model ----
(***************************************************************************)
(* Model of the profile processing task of sentry/profiles/task.py:        *)
(* process_profile_task and the stages it sequences (symbolication,        *)
(* deobfuscation, the hybrid js_profile pass, normalization, submission to *)
(* the persistence sink), the outcomes they emit and the job-level retry   *)
(* configured on the task.                                                 *)
(*                                                                         *)
(* One job is one message handed to the task: the arguments are fixed for  *)
(* the job, every attempt (the first run and each retry) walks the stages  *)
(* in order, one action per stage.  What the collaborators answer is       *)
(* chosen by the environment in each stage action.                         *)
(***************************************************************************)
EXTENDS Integers, Sequences, FiniteSets, TLC

VARIABLES
    args,        \* the task's arguments, fixed for the job
    profile,     \* the profile record the stages mutate in place
    pc,          \* position of the current run in process_profile_task
    retries,     \* the task request's retry counter
    escaped,     \* the exception that left the current run, "none" if none
    outcomes,    \* every outcome handed to track_outcome during the job
    stagesRun,   \* the stages the current run executed, with their results
    calls,       \* the symbolication collaborator calls of the current run
    sinkLog,     \* every answer of the persistence sink during the job
    submitted,   \* the payloads posted to the persistence sink from the record a job
                 \* in mode "profile" carries from attempt to attempt (an envelope is
                 \* decoded afresh in every attempt, its payloads are not kept)
    durationSeen,\* what _calculate_profile_duration_ms gave the current run: whether
                 \* it was called ("no", "raised", "yes") and the value it returned
    sym,         \* a sample-format profile body under _symbolicate_profile's loop
    timing,      \* a v1 profile's transaction and samples under the duration outcome
    dex,         \* an android profile's methods under _deobfuscate
    project,     \* a project's has_profiles flag under the outcomes of its profiles
    token,       \* an ApiToken and the plaintext secrets kept since its creation
    replay,      \* a request to the replay viewed-by endpoint and its response
    assignee     \* the GroupAssignee rows of one group and the activity recorded

\* the state of the models and endpoints beside the task, each walked by a
\* specification of its own
side_vars == <<project, token, replay, assignee>>

\* the state of the functions modelled at the level of their data, each walked by
\* a specification of its own
unit_vars == <<sym, timing, dex, side_vars>>

task_vars == <<args, profile, pc, retries, escaped, outcomes, stagesRun, calls, sinkLog,
               submitted, durationSeen>>

vars == <<args, profile, pc, retries, escaped, outcomes, stagesRun, calls, sinkLog, submitted,
          durationSeen, sym, timing, dex, project, token, replay, assignee>>

----------------------------------------------------------------------------
(* Constants of the task module *)

max_retries == 5

JS_PLATFORMS == {"javascript", "node"}

SHOULD_SYMBOLICATE_JS == JS_PLATFORMS

SHOULD_SYMBOLICATE == {"cocoa", "rust"} \cup JS_PLATFORMS

SHOULD_DEOBFUSCATE == {"android"}

Platforms == {"javascript", "node", "cocoa", "rust", "android", "other"}

\* "legacy" stands for a profile without a version key
Versions == {"legacy", "1", "2"}

\* what the symbolication collaborator can do with one request:
\*   completed      status "completed", results that merge cleanly
\*   completed_bad  status "completed", results whose merge raises
\*   failed         status "failed"
\*   unknown        any other status
\*   none           an empty response
\*   timeout        on_request raises SymbolicationTimeout
\*   error          any other exception out of the call
Responses == {"completed", "completed_bad", "failed", "unknown", "none", "timeout", "error"}

\* what the persistence sink can answer to POST /profile ("error": the request raises)
SinkAnswers == {"204", "429", "412", "500", "error"}

\* what the local work of a stage can do (mapping lookup, signature decoding, remap)
LocalResults == {"no_mapping", "no_line_info", "remapped", "raises"}

----------------------------------------------------------------------------
(* The profile record *)

NoJsProfile ==
    [present |-> FALSE, depth |-> 0, platform |-> "none", version |-> "legacy",
     debug_meta |-> "absent", cocoa_frames |-> FALSE, frames |-> FALSE,
     processed_by_symbolicator |-> FALSE, symbolicator_error |-> "none", merged |-> {}]

\* an embedded js_profile as it arrives: the bare sample-format body, no wrapper yet
RawJsProfile(cf) ==
    [NoJsProfile EXCEPT !.present = TRUE, !.cocoa_frames = cf, !.frames = TRUE]

NewProfile(v, pl, dm, cf, body, bid, js, rd) ==
    [version |-> v, platform |-> pl, debug_meta |-> dm, cocoa_frames |-> cf,
     frames |-> TRUE, body |-> body, build_id |-> bid, release_dist |-> rd,
     js_profile |-> IF js THEN RawJsProfile(cf) ELSE NoJsProfile,
     processed_by_symbolicator |-> FALSE, deobfuscated |-> FALSE, normalized |-> FALSE,
     symbolicator_error |-> "none", merged |-> {}, methods |-> "raw",
     retention_days |-> FALSE, classification |-> "unset", options |-> "unset"]

\* The inbound profiles.  Attributes no code path reads for a platform are held at
\* one value: debug_meta outside the symbolicated platforms and hybrid profiles,
\* body / build_id / js_profile outside android, cocoa frames outside versioned JS
\* profiles and embedded JS profiles.
InputProfiles ==
    { NewProfile(v, pl, dm, cf, body, bid, js, rd) :
        v \in Versions, pl \in Platforms, dm \in {"absent", "empty", "present"},
        cf \in BOOLEAN, body \in BOOLEAN, bid \in BOOLEAN, js \in BOOLEAN, rd \in BOOLEAN }

WellFormedInput(p) ==
    /\ p.js_profile.present => p.platform = "android"
    /\ ~p.js_profile.present => p.release_dist
    /\ p.cocoa_frames =>
         \/ p.platform \in JS_PLATFORMS /\ p.version # "legacy"
         \/ p.js_profile.present
    /\ p.platform # "android" => p.body /\ ~p.build_id
    /\ ~p.body => ~p.build_id
    /\ (p.platform \notin SHOULD_SYMBOLICATE /\ ~p.js_profile.present) => p.debug_meta = "absent"

\* mode "payload": the task gets the packed envelope and decodes it in every attempt;
\* mode "profile": it gets the already decoded record, which the retry hands over
\* again as the run left it.  Only an envelope can fail to decode.
TaskArgs ==
    { a \in { [mode |-> m, sampled |-> s, decodable |-> d, profile |-> p] :
                m \in {"payload", "profile"}, s \in BOOLEAN, d \in BOOLEAN,
                p \in {q \in InputProfiles : WellFormedInput(q)} } :
        a.mode = "profile" => a.decodable }

----------------------------------------------------------------------------
(* Outcomes *)

get_data_category(p) ==
    IF p.version = "2" THEN "PROFILE_CHUNK" ELSE "PROFILE_INDEXED"

\* the outcome _track_outcome hands to track_outcome, appended to the job's outcomes
\* (what it does to the project is _track_outcome_of_project)
_track_outcome(outs, attempt, p, outcome, reason) ==
    Append(outs, [attempt |-> attempt, outcome |-> outcome, reason |-> reason,
                  category |-> get_data_category(p)])

----------------------------------------------------------------------------
(* Symbolication stage *)

\* _should_symbolicate looking at the platform only
_should_symbolicate_ignoring_flag(p) ==
    p.platform \in SHOULD_SYMBOLICATE

_should_symbolicate(p) ==
    p.platform \in SHOULD_SYMBOLICATE /\ ~p.processed_by_symbolicator

\* the platforms of a profile: its own, and cocoa when a versioned JS profile
\* holds cocoa frames
get_profile_platforms(p) ==
    <<p.platform>> \o
    (IF p.version # "legacy" /\ p.platform \in SHOULD_SYMBOLICATE_JS /\ p.cocoa_frames
     THEN <<"cocoa">> ELSE <<>>)

\* get_profile_platforms reads profile["profile"]["frames"] of a versioned JS
\* profile: a KeyError when the body holds no frames key
frames_key_error(p) ==
    p.version # "legacy" /\ p.platform \in SHOULD_SYMBOLICATE_JS /\ ~p.frames

\* run_symbolicate without its handler for SymbolicationTimeout
run_symbolicate_timeout_raises(resp) ==
    CASE resp = "none" ->
           [success |-> FALSE, error |-> "native_internal_failure", raised |-> FALSE]
      [] resp \in {"completed", "completed_bad"} ->
           [success |-> TRUE, error |-> "unchanged", raised |-> FALSE]
      [] resp = "failed" ->
           [success |-> FALSE, error |-> "native_symbolicator_failed", raised |-> FALSE]
      [] resp = "unknown" ->
           [success |-> FALSE, error |-> "native_internal_failure", raised |-> FALSE]
      [] OTHER ->
           [success |-> FALSE, error |-> "unchanged", raised |-> TRUE]

\* run_symbolicate on one collaborator answer: the success flag, the
\* symbolicator_error.type it stores ("unchanged" when it stores none) and whether
\* an exception leaves it
run_symbolicate(resp) ==
    CASE resp = "none" ->
           [success |-> FALSE, error |-> "native_internal_failure", raised |-> FALSE]
      [] resp \in {"completed", "completed_bad"} ->
           [success |-> TRUE, error |-> "unchanged", raised |-> FALSE]
      [] resp = "failed" ->
           [success |-> FALSE, error |-> "native_symbolicator_failed", raised |-> FALSE]
      [] resp = "unknown" ->
           [success |-> FALSE, error |-> "native_internal_failure", raised |-> FALSE]
      [] resp = "timeout" ->
           [success |-> FALSE, error |-> "unchanged", raised |-> FALSE]
      [] OTHER ->
           [success |-> FALSE, error |-> "unchanged", raised |-> TRUE]

\* the loop body raising when run_symbolicate reports no success
symbolicate_platform_strict(p, platform, resp) ==
    LET r == run_symbolicate(resp)
    IN  IF r.raised
        THEN [profile |-> p, raised |-> TRUE]
        ELSE [profile |->
                [p EXCEPT !.symbolicator_error = IF r.error = "unchanged" THEN @ ELSE r.error,
                          !.merged = IF r.success /\ resp # "completed_bad"
                                     THEN @ \cup {platform} ELSE @],
              raised |-> ~r.success \/ resp = "completed_bad"]

\* one pass of the loop over the platforms in _symbolicate_profile: the call,
\* and the merge of its results when it succeeded
symbolicate_platform(p, platform, resp) ==
    LET r == run_symbolicate(resp)
    IN  IF r.raised
        THEN [profile |-> p, raised |-> TRUE]
        ELSE [profile |->
                [p EXCEPT !.symbolicator_error = IF r.error = "unchanged" THEN @ ELSE r.error,
                          !.merged = IF r.success /\ resp # "completed_bad"
                                     THEN @ \cup {platform} ELSE @],
              raised |-> r.success /\ resp = "completed_bad"]

RECURSIVE symbolicate_platforms(_, _, _, _)
symbolicate_platforms(p, platforms, resps, i) ==
    IF i > Len(platforms)
    THEN [profile |-> p, raised |-> FALSE, calls |-> <<>>]
    ELSE LET step == symbolicate_platform(p, platforms[i], resps[i])
             call == <<[platform |-> platforms[i], response |-> resps[i]]>>
         IN  IF step.raised
             THEN [profile |-> step.profile, raised |-> TRUE, calls |-> call]
             ELSE LET rest == symbolicate_platforms(step.profile, platforms, resps, i + 1)
                  IN  [profile |-> rest.profile, raised |-> rest.raised,
                       calls |-> call \o rest.calls]

\* the flag set only when no symbolicator_error was stored
symbolicate_finish_if_no_error(p) ==
    [p EXCEPT !.processed_by_symbolicator = (p.symbolicator_error = "none")]

\* the end of _symbolicate_profile once the loop has ended without an exception
symbolicate_finish(p) ==
    [p EXCEPT !.processed_by_symbolicator = TRUE]

_symbolicate_profile(p, resps) ==
    IF ~_should_symbolicate(p) \/ p.debug_meta # "present"
    THEN [profile |-> p, result |-> TRUE, calls |-> <<>>]
    ELSE IF frames_key_error(p)
    THEN [profile |-> p, result |-> FALSE, calls |-> <<>>]
    ELSE LET loop == symbolicate_platforms(p, get_profile_platforms(p), resps, 1)
         IN  IF loop.raised
             THEN [profile |-> loop.profile, result |-> FALSE, calls |-> loop.calls]
             ELSE [profile |-> symbolicate_finish(loop.profile), result |-> TRUE,
                   calls |-> loop.calls]

----------------------------------------------------------------------------
(* Deobfuscation stage *)

_should_deobfuscate(p) ==
    p.platform \in SHOULD_DEOBFUSCATE /\ ~p.deobfuscated

\* the remote strategy: true when the response carries stacktraces and they merge
\* onto profile.methods; a SymbolicationTimeout is caught inside, every other
\* exception leaves it
_deobfuscate_using_symbolicator(p, resp) ==
    CASE resp = "completed" ->
           [profile |-> [p EXCEPT !.methods = "merged_remote"], success |-> TRUE,
            raised |-> FALSE]
      [] resp \in {"completed_bad", "error"} ->
           [profile |-> p, success |-> FALSE, raised |-> TRUE]
      [] OTHER ->
           [profile |-> p, success |-> FALSE, raised |-> FALSE]

\* the local strategy: fetch the mapping, return when there is none or it has no
\* line information, otherwise remap every method
_deobfuscate_locally(p, local) ==
    CASE local = "remapped" -> [profile |-> [p EXCEPT !.methods = "remapped_local"],
                                raised |-> FALSE]
      [] local = "raises"   -> [profile |-> p, raised |-> TRUE]
      [] OTHER              -> [profile |-> p, raised |-> FALSE]

\* _deobfuscate letting the exceptions of the remote strategy through
_deobfuscate_remote_raising(p, remote, resp, local) ==
    IF ~p.build_id
    THEN IF local = "raises"
         THEN [profile |-> p, raised |-> TRUE, calls |-> <<>>]
         ELSE [profile |-> [p EXCEPT !.methods = "signatures_decoded"], raised |-> FALSE,
               calls |-> <<>>]
    ELSE IF remote
    THEN [profile |-> _deobfuscate_using_symbolicator(p, resp).profile,
          raised |-> _deobfuscate_using_symbolicator(p, resp).raised,
          calls |-> <<[platform |-> p.platform, response |-> resp]>>]
    ELSE [profile |-> _deobfuscate_locally(p, local).profile,
          raised |-> _deobfuscate_locally(p, local).raised, calls |-> <<>>]

\* _deobfuscate: without build_id only the signatures are decoded; with the remote
\* strategy every exception of the collaborator call is caught here
_deobfuscate(p, remote, resp, local) ==
    IF ~p.build_id
    THEN IF local = "raises"
         THEN [profile |-> p, raised |-> TRUE, calls |-> <<>>]
         ELSE [profile |-> [p EXCEPT !.methods = "signatures_decoded"], raised |-> FALSE,
               calls |-> <<>>]
    ELSE IF remote
    THEN [profile |-> _deobfuscate_using_symbolicator(p, resp).profile, raised |-> FALSE,
          calls |-> <<[platform |-> p.platform, response |-> resp]>>]
    ELSE [profile |-> _deobfuscate_locally(p, local).profile,
          raised |-> _deobfuscate_locally(p, local).raised, calls |-> <<>>]

_deobfuscate_profile(p, remote, resp, local) ==
    IF ~_should_deobfuscate(p) \/ ~p.body
    THEN [profile |-> p, result |-> TRUE, calls |-> <<>>]
    ELSE LET d == _deobfuscate(p, remote, resp, local)
         IN  IF d.raised
             THEN [profile |-> d.profile, result |-> FALSE, calls |-> d.calls]
             ELSE [profile |-> [d.profile EXCEPT !.deobfuscated = TRUE], result |-> TRUE,
                   calls |-> d.calls]

----------------------------------------------------------------------------
(* Hybrid pass: the embedded js_profile *)

\* prepare_android_js_profile wraps the js_profile in a fresh record, then copies
\* the fields the symbolication stage reads; profile["debug_meta"], ["release"]
\* and ["dist"] are read without a default, a KeyError when one is missing
prepare_android_js_profile(p) ==
    LET wrapped == [p.js_profile EXCEPT !.depth = @ + 1,
                                        !.frames = (p.js_profile.depth = 0),
                                        !.processed_by_symbolicator = FALSE,
                                        !.symbolicator_error = "none",
                                        !.platform = "javascript"]
    IN  IF p.debug_meta = "absent"
        THEN [profile |-> [p EXCEPT !.js_profile = wrapped], raised |-> TRUE]
        ELSE IF ~p.release_dist
        THEN [profile |-> [p EXCEPT !.js_profile =
                             [wrapped EXCEPT !.debug_meta = p.debug_meta, !.version = "1"]],
              raised |-> TRUE]
        ELSE [profile |-> [p EXCEPT !.js_profile =
                             [wrapped EXCEPT !.debug_meta = p.debug_meta, !.version = "1"]],
              raised |-> FALSE]

\* clean_android_js_profile deletes the copied fields; the wrapper record stays
clean_android_js_profile(p) ==
    [p EXCEPT !.js_profile = [@ EXCEPT !.platform = "none", !.debug_meta = "absent",
                                       !.version = "legacy"]]

----------------------------------------------------------------------------
(* Normalization stage *)

\* _normalize storing the classification of versioned profiles only
_normalize_versioned_only(p) ==
    LET q == [p EXCEPT !.retention_days = TRUE]
    IN  IF p.platform \notin {"cocoa", "android"} \/ p.version # "1"
        THEN q
        ELSE [q EXCEPT !.classification = "device.classification"]

\* _normalize: the retention, and for cocoa and android profiles of every version
\* but "2" the device classification, under profile["device"]["classification"]
\* for version "1" and profile["device_classification"] for a legacy profile
_normalize(p) ==
    LET q == [p EXCEPT !.retention_days = TRUE]
    IN  IF p.platform \notin {"cocoa", "android"} \/ p.version = "2"
        THEN q
        ELSE [q EXCEPT !.classification =
                 IF p.version = "1" THEN "device.classification" ELSE "device_classification"]

_normalize_profile(p, raises) ==
    IF p.normalized
    THEN [profile |-> p, result |-> TRUE]
    ELSE IF raises
    THEN [profile |-> p, result |-> FALSE]
    ELSE [profile |-> [_normalize(p) EXCEPT !.normalized = TRUE], result |-> TRUE]

----------------------------------------------------------------------------
(* Submission stage *)

\* the profiling DSN process_profile_task attaches before the submission, for every
\* version but "2", when the functions ingestion is enabled for the organization
\* and get_metrics_dsn does not raise
set_options(p, dsn) ==
    IF p.version # "2" /\ dsn = "set" THEN [p EXCEPT !.options = "dsn"] ELSE p

\* _insert_vroom_profile raising VroomTimeout for a duplicate as well
_insert_vroom_profile_retry_duplicate(answer) ==
    CASE answer = "204" -> "true"
      [] answer \in {"429", "412"} -> "VroomTimeout"
      [] OTHER          -> "false"

\* _insert_vroom_profile on the sink's answer
_insert_vroom_profile(answer) ==
    CASE answer = "204" -> "true"
      [] answer = "429" -> "VroomTimeout"
      [] answer = "412" -> "false"
      [] OTHER          -> "false"

----------------------------------------------------------------------------
(* Duration outcome *)

\* the values _calculate_profile_duration_ms can return for a profile: computed
\* from the samples for the versions "1" and "2" (never negative), duration_ns for
\* a legacy android profile, 0 for every other profile
_calculate_profile_duration_ms(p) ==
    IF p.version \in {"1", "2"} THEN {0, 7}
    ELSE IF p.platform = "android" THEN {0 - 3, 0, 7}
    ELSE {0}

\* _track_duration_outcome emitting for a duration of 0 as well
_track_duration_outcome_for_zero(outs, attempt, duration_ms) ==
    IF duration_ms < 0 THEN outs
    ELSE Append(outs, [attempt |-> attempt, outcome |-> "ACCEPTED", reason |-> "none",
                       category |-> "PROFILE_DURATION", quantity |-> duration_ms])

\* _track_duration_outcome: no outcome for a duration of 0 or less
_track_duration_outcome(outs, attempt, duration_ms) ==
    IF duration_ms <= 0 THEN outs
    ELSE Append(outs, [attempt |-> attempt, outcome |-> "ACCEPTED", reason |-> "none",
                       category |-> "PROFILE_DURATION", quantity |-> duration_ms])

\* the accepted outcome tracked for every version
tracks_accepted_always(p) ==
    TRUE

\* the accepted outcome is tracked for every version but "2"
tracks_accepted(p) ==
    p.version # "2"

----------------------------------------------------------------------------
(* process_profile_task *)

\* the task going on after a stage whatever it returned
after_stage_ignoring_result(stage, ok, p) ==
    CASE stage = "symbolicate" -> "deobfuscate"
      [] stage = "deobfuscate" -> IF p.js_profile.present THEN "hybrid" ELSE "normalize"
      [] stage = "hybrid"      -> "normalize"
      [] stage = "normalize"   -> "submit"
      [] stage = "submit"      -> IF ok THEN "track" ELSE "returned"

\* where process_profile_task goes after a stage returned: a false result returns
\* from the task, the hybrid pass exists only with a js_profile
after_stage(stage, ok, p) ==
    IF ~ok THEN "returned"
    ELSE CASE stage = "symbolicate" -> "deobfuscate"
           [] stage = "deobfuscate" -> IF p.js_profile.present THEN "hybrid" ELSE "normalize"
           [] stage = "hybrid"      -> "normalize"
           [] stage = "normalize"   -> "submit"
           [] stage = "submit"      -> "track"

\* the autoretry allowing one attempt too many
can_retry_off_by_one(n) ==
    n <= max_retries

\* the autoretry of the task: another attempt while the request's retry counter is
\* below max_retries
can_retry(n) ==
    n < max_retries

attempt == retries + 1

Tag(stage, cs) ==
    [i \in 1..Len(cs) |-> [stage |-> stage, platform |-> cs[i].platform,
                           response |-> cs[i].response]]

Ran(stage, ok) ==
    Append(stagesRun, [stage |-> stage, result |-> IF ok THEN "true" ELSE "false"])

\* nothing outside the task is at work
SideIdle ==
    /\ project = "idle"
    /\ token = "idle"
    /\ replay = "idle"
    /\ assignee = "idle"

Init ==
    /\ args \in TaskArgs
    /\ profile = args.profile
    /\ pc = "start"
    /\ retries = 0
    /\ escaped = "none"
    /\ outcomes = <<>>
    /\ stagesRun = <<>>
    /\ calls = <<>>
    /\ sinkLog = <<>>
    /\ submitted = <<>>
    /\ durationSeen = [called |-> "no", ms |-> 0]
    /\ sym = "idle"
    /\ timing = "idle"
    /\ dex = "idle"
    /\ SideIdle

\* the head of the task: the unsampled check, the decoding of the envelope
Start ==
    /\ pc = "start"
    /\ \E unsampled_enabled \in BOOLEAN :
         IF ~args.sampled /\ ~unsampled_enabled
         THEN /\ pc' = "returned"
              /\ UNCHANGED <<profile, escaped>>
         ELSE IF args.mode = "payload" /\ ~args.decodable
         THEN /\ pc' = "failed"
              /\ escaped' = "DecodeError"
              /\ UNCHANGED profile
         ELSE /\ pc' = "symbolicate"
              /\ profile' = IF args.mode = "payload" THEN args.profile ELSE profile
              /\ UNCHANGED escaped
    /\ UNCHANGED <<unit_vars, durationSeen, args, retries, outcomes, stagesRun, calls, sinkLog,
                   submitted>>

SymbolicateStage ==
    /\ pc = "symbolicate"
    /\ \E resps \in [1..2 -> Responses] :
         LET r == _symbolicate_profile(profile, resps)
         IN  /\ profile' = r.profile
             /\ calls' = calls \o Tag("symbolicate", r.calls)
             /\ stagesRun' = Ran("symbolicate", r.result)
             /\ outcomes' = IF r.result THEN outcomes
                            ELSE _track_outcome(outcomes, attempt, profile, "INVALID",
                                                "profiling_failed_symbolication")
             /\ pc' = after_stage("symbolicate", r.result, r.profile)
    /\ UNCHANGED <<unit_vars, durationSeen, args, retries, escaped, sinkLog, submitted>>

DeobfuscateStage ==
    /\ pc = "deobfuscate"
    /\ \E remote \in BOOLEAN, resp \in Responses, local \in LocalResults :
         LET r == _deobfuscate_profile(profile, remote, resp, local)
         IN  /\ profile' = r.profile
             /\ calls' = calls \o Tag("deobfuscate", r.calls)
             /\ stagesRun' = Ran("deobfuscate", r.result)
             /\ outcomes' = IF r.result THEN outcomes
                            ELSE _track_outcome(outcomes, attempt, profile, "INVALID",
                                                "profiling_failed_deobfuscation")
             /\ pc' = after_stage("deobfuscate", r.result, r.profile)
    /\ UNCHANGED <<unit_vars, durationSeen, args, retries, escaped, sinkLog, submitted>>

\* prepare_android_js_profile, _symbolicate_profile on the js_profile,
\* clean_android_js_profile; an exception of the prepare step leaves the task
HybridStage ==
    /\ pc = "hybrid"
    /\ LET prep == prepare_android_js_profile(profile)
       IN  IF prep.raised
           THEN /\ profile' = prep.profile
                /\ stagesRun' = Append(stagesRun, [stage |-> "hybrid", result |-> "raised"])
                /\ escaped' = "KeyError"
                /\ pc' = "failed"
                /\ UNCHANGED <<calls, outcomes>>
           ELSE \E resps \in [1..2 -> Responses] :
                  LET r == _symbolicate_profile(prep.profile.js_profile, resps)
                      q == [prep.profile EXCEPT !.js_profile = r.profile]
                  IN  /\ profile' = IF r.result THEN clean_android_js_profile(q) ELSE q
                      /\ calls' = calls \o Tag("hybrid", r.calls)
                      /\ stagesRun' = Ran("hybrid", r.result)
                      /\ outcomes' = IF r.result THEN outcomes
                                     ELSE _track_outcome(outcomes, attempt,
                                                         prep.profile.js_profile, "INVALID",
                                                         "profiling_failed_symbolication")
                      /\ pc' = after_stage("hybrid", r.result, q)
                      /\ UNCHANGED escaped
    /\ UNCHANGED <<unit_vars, durationSeen, args, retries, sinkLog, submitted>>

NormalizeStage ==
    /\ pc = "normalize"
    /\ \E raises \in BOOLEAN :
         LET r == _normalize_profile(profile, raises)
         IN  /\ profile' = r.profile
             /\ stagesRun' = Ran("normalize", r.result)
             /\ outcomes' = IF r.result THEN outcomes
                            ELSE _track_outcome(outcomes, attempt, profile, "INVALID",
                                                "profiling_failed_normalization")
             /\ pc' = after_stage("normalize", r.result, r.profile)
    /\ UNCHANGED <<unit_vars, durationSeen, args, retries, escaped, calls, sinkLog, submitted>>

\* the DSN option and _push_profile_to_vroom: a VroomTimeout leaves the task
SubmitStage ==
    /\ pc = "submit"
    /\ \E dsn \in {"disabled", "set", "error"}, answer \in SinkAnswers :
         LET payload == set_options(profile, dsn)
             r == _insert_vroom_profile(answer)
         IN  /\ profile' = payload
             /\ submitted' = IF args.mode = "profile" THEN Append(submitted, payload)
                             ELSE submitted
             /\ sinkLog' = Append(sinkLog, [attempt |-> attempt, answer |-> answer])
             /\ stagesRun' = Append(stagesRun,
                    [stage |-> "submit", result |-> IF r = "VroomTimeout" THEN "raised" ELSE r])
             /\ outcomes' = IF r = "false"
                            THEN _track_outcome(outcomes, attempt, payload, "INVALID",
                                                "profiling_failed_vroom_insertion")
                            ELSE outcomes
             /\ escaped' = IF r = "VroomTimeout" THEN "VroomTimeout" ELSE escaped
             /\ pc' = IF r = "VroomTimeout" THEN "retry"
                      ELSE after_stage("submit", r = "true", payload)
    /\ UNCHANGED <<unit_vars, durationSeen, args, retries, calls>>

\* the end of the task after a successful submission: the duration outcome
\* (an exception of its computation is caught), then the accepted outcome
TrackAccepted ==
    /\ pc = "track"
    /\ \E raises \in BOOLEAN, duration_ms \in _calculate_profile_duration_ms(profile) :
         LET outs == IF raises THEN outcomes
                     ELSE _track_duration_outcome(outcomes, attempt, duration_ms)
         IN  /\ outcomes' = IF tracks_accepted(profile)
                            THEN _track_outcome(outs, attempt, profile, "ACCEPTED", "none")
                            ELSE outs
             /\ durationSeen' = IF raises THEN [called |-> "raised", ms |-> 0]
                                ELSE [called |-> "yes", ms |-> duration_ms]
    /\ pc' = "returned"
    /\ UNCHANGED <<unit_vars, args, profile, retries, escaped, stagesRun, calls, sinkLog,
                   submitted>>

\* the task queue runs the task again after a VroomTimeout
Retry ==
    /\ pc = "retry"
    /\ can_retry(retries)
    /\ retries' = retries + 1
    /\ pc' = "start"
    /\ escaped' = "none"
    /\ stagesRun' = <<>>
    /\ calls' = <<>>
    /\ UNCHANGED <<unit_vars, durationSeen, args, profile, outcomes, sinkLog, submitted>>

\* the retries are exhausted: the VroomTimeout fails the job
GiveUp ==
    /\ pc = "retry"
    /\ ~can_retry(retries)
    /\ pc' = "failed"
    /\ UNCHANGED <<unit_vars, durationSeen, args, profile, retries, escaped, outcomes,
                   stagesRun, calls, sinkLog, submitted>>

Next ==
    \/ Start
    \/ SymbolicateStage
    \/ DeobfuscateStage
    \/ HybridStage
    \/ NormalizeStage
    \/ SubmitStage
    \/ TrackAccepted
    \/ Retry
    \/ GiveUp

Spec == Init /\ [][Next]_vars

\* a queued task is run and a run goes on to its end
FairSpec == Spec /\ WF_vars(Next)

----------------------------------------------------------------------------
(* Properties *)

\* the outcomes the attempt a emitted, and those of them that are terminal
\* (every outcome but the duration quantity)
OutcomeIdx(a) == {i \in DOMAIN outcomes : outcomes[i].attempt = a}

TerminalIdx(a) == {i \in OutcomeIdx(a) : outcomes[i].category # "PROFILE_DURATION"}

InvalidIdx(a) == {i \in OutcomeIdx(a) : outcomes[i].outcome = "INVALID"}

\* the current run got past the head of the task and worked on the profile
Processed == stagesRun # <<>>

StageResult(stage) ==
    IF \E i \in DOMAIN stagesRun : stagesRun[i].stage = stage
    THEN stagesRun[CHOOSE i \in DOMAIN stagesRun : stagesRun[i].stage = stage].result
    ELSE "absent"

CallsOf(stage) == {i \in DOMAIN calls : calls[i].stage = stage}

\* a call of the stage raised into _symbolicate_profile's handler
RaisedIn(stage) ==
    \E i \in CallsOf(stage) : calls[i].response \in {"error", "completed_bad"}

Accepted == StageResult("submit") = "true"

JobOver == pc \in {"returned", "failed"}

ReasonOf(stage) ==
    CASE stage = "symbolicate" -> "profiling_failed_symbolication"
      [] stage = "deobfuscate" -> "profiling_failed_deobfuscation"
      [] stage = "hybrid"      -> "profiling_failed_symbolication"
      [] stage = "normalize"   -> "profiling_failed_normalization"
      [] stage = "submit"      -> "profiling_failed_vroom_insertion"

JsFailed ==
    /\ profile.platform \in JS_PLATFORMS
    /\ \E i \in CallsOf("symbolicate") :
         calls[i].platform \in JS_PLATFORMS /\ calls[i].response = "failed"

ExpectedStages ==
    <<"symbolicate", "deobfuscate">> \o
    (IF args.profile.js_profile.present THEN <<"hybrid">> ELSE <<>>) \o
    <<"normalize", "submit">>

SinkAsked(a) == \E i \in DOMAIN sinkLog : sinkLog[i].attempt = a

\* C3: the stages of a run are an initial segment of symbolication, deobfuscation,
\* hybrid pass (only with a js_profile), normalization, submission; a stage that
\* returned false is the last one of the run, the run has returned after emitting
\* one INVALID outcome with that stage's reason, and unless that stage is the
\* submission itself the persistence sink was not called in the run.
C3_StagesInOrderShortCircuit ==
    /\ Len(stagesRun) <= Len(ExpectedStages)
    /\ \A i \in DOMAIN stagesRun :
         /\ stagesRun[i].stage = ExpectedStages[i]
         /\ i < Len(stagesRun) => stagesRun[i].result = "true"
         /\ stagesRun[i].result = "false" =>
              /\ pc = "returned"
              /\ Cardinality(OutcomeIdx(attempt)) = 1
              /\ \A j \in OutcomeIdx(attempt) :
                   /\ outcomes[j].outcome = "INVALID"
                   /\ outcomes[j].reason = ReasonOf(stagesRun[i].stage)
              /\ stagesRun[i].stage # "submit" => ~SinkAsked(attempt)
    /\ SinkAsked(attempt) => StageResult("submit") # "absent"

C3_Witness ==
    /\ StageResult("symbolicate") = "true"
    /\ StageResult("deobfuscate") = "false"
    /\ pc = "returned"
    /\ ~SinkAsked(attempt)

\* the environment made a stage of the current run fail: a collaborator call
\* raised, or the local work of deobfuscation or normalization did
EnvFault ==
    \/ \E i \in DOMAIN calls : calls[i].response \in {"error", "completed_bad"}
    \/ \E i \in DOMAIN stagesRun :
         stagesRun[i].stage \in {"deobfuscate", "normalize"} /\ stagesRun[i].result = "false"

\* C4: a job whose first attempt got 429 from the sink, whose retried attempt
\* gets 204 whenever it asks the sink and meets no failure of a collaborator, ends
\* with exactly one ACCEPTED outcome and no INVALID outcome.
C4_RetryAfter429IsAccepted ==
    (/\ pc = "returned"
     /\ Processed
     /\ retries = 1
     /\ sinkLog[1].answer = "429"
     /\ \A i \in 2..Len(sinkLog) : sinkLog[i].answer = "204"
     /\ ~EnvFault)
    =>
        /\ Cardinality({i \in DOMAIN outcomes :
                          /\ outcomes[i].outcome = "ACCEPTED"
                          /\ outcomes[i].category # "PROFILE_DURATION"}) = 1
        /\ \A i \in DOMAIN outcomes : outcomes[i].outcome # "INVALID"

TimedOut(stage) == \E i \in CallsOf(stage) : calls[i].response = "timeout"

CallStages == {"symbolicate", "deobfuscate", "hybrid"}

C6_SinkAnswerMapping ==
    /\ retries = Cardinality({i \in DOMAIN sinkLog : sinkLog[i].attempt < attempt})
    /\ \A i, j \in DOMAIN sinkLog : sinkLog[i].attempt = sinkLog[j].attempt => i = j
    /\ \A i \in DOMAIN sinkLog :
         LET e == sinkLog[i]
         IN  IF e.attempt < attempt
             THEN e.answer = "429" /\ OutcomeIdx(e.attempt) = {}
             ELSE CASE e.answer = "204" ->
                         /\ StageResult("submit") = "true"
                         /\ pc \in {"track", "returned"}
                         /\ escaped = "none"
                         /\ InvalidIdx(attempt) = {}
                    [] e.answer = "429" ->
                         /\ StageResult("submit") = "raised"
                         /\ pc \in {"retry", "failed"}
                         /\ escaped = "VroomTimeout"
                         /\ OutcomeIdx(attempt) = {}
                    [] OTHER ->
                         /\ StageResult("submit") = "false"
                         /\ pc = "returned"
                         /\ escaped = "none"
                         /\ Cardinality(OutcomeIdx(attempt)) = 1
                         /\ \A k \in OutcomeIdx(attempt) :
                              /\ outcomes[k].outcome = "INVALID"
                              /\ outcomes[k].reason = "profiling_failed_vroom_insertion"

C6_Witness ==
    /\ retries = 1
    /\ sinkLog[Len(sinkLog)] = [attempt |-> 2, answer |-> "412"]
    /\ pc = "returned"
    /\ InvalidIdx(attempt) # {}

C8_OnlyVroomTimeoutEscapes ==
    args.decodable => escaped \in {"none", "VroomTimeout"}

\* the payload as the stages leave it (the DSN option is attached by the task
\* itself before each submission)
StagePayload(p) == [p EXCEPT !.options = "unset"]

\* C9: in a retried run on the record of the earlier attempt no collaborator is
\* called, no stage before the submission fails, the record reaches the
\* submission as the earlier attempt posted it and every payload posted is the
\* same.
C9_RetryRecomputesNothing ==
    (args.mode = "profile" /\ retries >= 1) =>
        /\ calls = <<>>
        /\ \A i \in DOMAIN stagesRun :
             stagesRun[i].stage # "submit" => stagesRun[i].result = "true"
        /\ pc = "submit" => StagePayload(profile) = StagePayload(submitted[Len(submitted)])
        /\ \A i, j \in DOMAIN submitted :
             StagePayload(submitted[i]) = StagePayload(submitted[j])

\* the collaborator calls of a symbolication stage and the record it worked on
SymFlag(stage) ==
    IF stage = "hybrid" THEN profile.js_profile.processed_by_symbolicator
    ELSE profile.processed_by_symbolicator

----------------------------------------------------------------------------
(* C11 *)

\* the three stage-completion flags of the profile record
StageFlags(p) ==
    [symbolicate |-> p.processed_by_symbolicator,
     deobfuscate |-> p.deobfuscated,
     normalize   |-> p.normalized]

FlaggedStages == {"symbolicate", "deobfuscate", "normalize"}

\* C11: within a pipeline run (every step but the head of the task, which decodes
\* an envelope afresh) a stage-completion flag that is true stays true, and a stage
\* entered with its flag true returns true, calls no collaborator and leaves the
\* record as it was.
C11_FlagsMonotonic ==
    [][ /\ pc # "start" =>
             \A s \in FlaggedStages : StageFlags(profile)[s] => StageFlags(profile')[s]
        /\ \A s \in FlaggedStages :
             (pc = s /\ StageFlags(profile)[s]) =>
                 /\ stagesRun' = Append(stagesRun, [stage |-> s, result |-> "true"])
                 /\ calls' = calls
                 /\ profile' = profile
                 /\ outcomes' = outcomes ]_vars

\* a retried run went through the stages with the flags the first run set (a
\* symbolicated profile: processed_by_symbolicator and normalized): every stage
\* returned true and no collaborator was called
C11_Witness ==
    /\ retries > 0
    /\ pc = "submit"
    /\ profile.processed_by_symbolicator /\ profile.normalized
    /\ profile.merged # {}
    /\ \A s \in FlaggedStages : StageResult(s) = "true"
    /\ calls = <<>>

----------------------------------------------------------------------------
(* C14 *)

\* the duration outcomes the attempt a emitted
DurationIdx(a) == {i \in OutcomeIdx(a) : outcomes[i].category = "PROFILE_DURATION"}

\* C14: a run that was accepted and returned has emitted exactly one
\* PROFILE_DURATION outcome when the duration computed for its version is
\* positive, carrying that duration, and none when it is zero or negative (or
\* when no duration could be computed); a run that emitted INVALID, and any run
\* that did not get past the submission, has emitted none.
C14_DurationOutcome ==
    /\ (Accepted /\ pc = "returned") =>
         /\ durationSeen.called # "no"
         /\ (durationSeen.called = "yes" /\ durationSeen.ms > 0) =>
              /\ Cardinality(DurationIdx(attempt)) = 1
              /\ \A i \in DurationIdx(attempt) : outcomes[i].quantity = durationSeen.ms
         /\ (durationSeen.called = "raised" \/ durationSeen.ms <= 0) =>
              DurationIdx(attempt) = {}
    /\ \A a \in 1..attempt :
         (a # attempt \/ ~Accepted \/ InvalidIdx(a) # {}) => DurationIdx(a) = {}

\* an accepted run with a positive duration, and the outcome it emitted
C14_Witness ==
    /\ Accepted /\ pc = "returned"
    /\ durationSeen.called = "yes" /\ durationSeen.ms > 0
    /\ Cardinality(DurationIdx(attempt)) = 1

----------------------------------------------------------------------------
(* Symbolication of a sample-format profile: the frames sent to the          *)
(* collaborator and the merge of its answer into profile["profile"]          *)

\* the most frames and the most stacks of a profile body, the most frames of a stack,
\* the most frames the collaborator returns for one frame
MaxFrames == 2

MaxStacks == 1

MaxStackLen == 3

MaxInline == 2

\* the most samples of a legacy profile
MaxLegacySamples == 1

NoIndex == 0 - 1

\* sequences are indexed from 0 in the code
At(s, i) == s[i + 1]

InRange(s, i) == i >= 0 /\ i < Len(s)

RECURSIVE SortedSeq(_)
SortedSeq(S) ==
    IF S = {} THEN <<>>
    ELSE LET m == CHOOSE x \in S : \A y \in S : x <= y
         IN  <<m>> \o SortedSeq(S \ {m})

RECURSIVE Flatten(_)
Flatten(ss) ==
    IF ss = <<>> THEN <<>> ELSE Head(ss) \o Flatten(Tail(ss))

SeqsUpTo(S, n) == UNION {[1..k -> S] : k \in 0..n}

\* a frame of profile["profile"]["frames"]: its platform, whether
\* is_valid_javascript_frame accepts it, its instruction_addr ("none" when it has
\* none), the function the collaborator resolves it to (a frame carries it once
\* it is symbolicated), adjust_instruction_addr, the original_index of a returned
\* frame (NoIndex when it has none), and origin: the position, in the frames array
\* the stacks referred to before the merge, of the frame it stems from
Frame(platform, valid, addr, fn) ==
    [platform |-> platform, valid |-> valid, instruction_addr |-> addr, fn |-> fn,
     symbolicated |-> FALSE, adjust_instruction_addr |-> TRUE,
     original_index |-> NoIndex, origin |-> NoIndex]

\* the frames a body of the given root platform is made of
FrameKinds(root) ==
    CASE root \in JS_PLATFORMS ->
           {Frame("javascript", TRUE, "none", "f"), Frame("javascript", FALSE, "none", "f"),
            Frame("cocoa", FALSE, "0x1", "f")}
      [] root = "cocoa" ->
           {Frame("cocoa", FALSE, "0x1", "f"), Frame("cocoa", FALSE, "0xffffffffc", "f")}
      [] root = "rust" ->
           {Frame("rust", FALSE, "0x1", fn) : fn \in {"f", "perf_signal_handler", ""}}

\* f.get("function", "")
FunctionOf(f) == IF f.symbolicated THEN f.fn ELSE ""

\* the sample-format bodies: the frames are those of the root platform and every
\* index of every stack is a position of frames
WellFormedBody(b) ==
    /\ \A i \in DOMAIN b.frames : b.frames[i] \in FrameKinds(b.platform)
    /\ \A k \in DOMAIN b.stacks : \A j \in DOMAIN b.stacks[k] : InRange(b.frames, b.stacks[k][j])

SampleBodies ==
    UNION { { b \in { [platform |-> root, version |-> "1", frames |-> fs, stacks |-> ss,
                        samples |-> <<>>] :
                       fs \in SeqsUpTo(FrameKinds(root), MaxFrames),
                       ss \in SeqsUpTo(SeqsUpTo(0..(MaxFrames - 1), MaxStackLen), MaxStacks) } :
                WellFormedBody(b) } : root \in {"javascript", "cocoa", "rust"} }

\* the profiles without version: sampled_profile.samples, every sample with its own
\* list of frames
LegacyBodies ==
    UNION { { [platform |-> root, version |-> "legacy", frames |-> <<>>, stacks |-> <<>>,
               samples |-> samples] :
                samples \in [1..n -> SeqsUpTo(FrameKinds(root), MaxFrames)] } :
            root \in {"cocoa", "rust"}, n \in 1..MaxLegacySamples }

\* _prepare_frames_from_profile for a profile without version: the first frame of
\* every sample gets adjust_instruction_addr = False, and every sample's frames
\* are a stacktrace of the request
prepare_legacy_samples(samples) ==
    [s \in DOMAIN samples |->
       IF Len(samples[s]) > 0
       THEN [samples[s] EXCEPT ![1] = [@ EXCEPT !.adjust_instruction_addr = FALSE]]
       ELSE samples[s]]

\* the loop of _prepare_frames_from_profile over the stacks: a copy of the leaf
\* frame with adjust_instruction_addr = False is appended and takes the leaf's
\* place in the stack.  For a root platform that is not JS, frames is the
\* profile's own list; for a JS root the copy goes to both lists, and only for a
\* leaf that is sent.
RECURSIVE prepare_leaf_copies(_, _, _, _, _, _)
prepare_leaf_copies(root, pframes, frames, frames_sent, stacks, k) ==
    IF k > Len(stacks)
    THEN [pframes |-> pframes, frames |-> frames, frames_sent |-> frames_sent,
          stacks |-> stacks]
    ELSE IF Len(stacks[k]) = 0
    THEN prepare_leaf_copies(root, pframes, frames, frames_sent, stacks, k + 1)
    ELSE LET first_frame_idx == stacks[k][1]
             frame == [At(pframes, first_frame_idx) EXCEPT !.adjust_instruction_addr = FALSE]
         IN  IF root \notin JS_PLATFORMS
             THEN prepare_leaf_copies(root, Append(pframes, frame), Append(frames, frame),
                                      frames_sent,
                                      [stacks EXCEPT ![k][1] = Len(frames)], k + 1)
             ELSE IF first_frame_idx \in frames_sent
             THEN prepare_leaf_copies(root, Append(pframes, frame), Append(frames, frame),
                                      frames_sent \cup {Len(pframes)},
                                      [stacks EXCEPT ![k][1] = Len(pframes)], k + 1)
             ELSE prepare_leaf_copies(root, pframes, frames, frames_sent, stacks, k + 1)

\* _prepare_frames_from_profile for a profile with a version: the profile's frames
\* and stacks as it leaves them, the frames of the stacktrace it sends, frames_sent
_prepare_frames_from_profile(body, platform) ==
    LET raw == body.frames
        all == 0..(Len(raw) - 1)
    IN  IF platform \in JS_PLATFORMS
        THEN LET frames_sent == {idx \in all : At(raw, idx).valid}
             IN  [pframes |-> raw, stacks |-> body.stacks, frames_sent |-> frames_sent,
                  frames |-> [j \in 1..Cardinality(frames_sent) |->
                                At(raw, SortedSeq(frames_sent)[j])]]
        ELSE IF body.platform # platform
        THEN LET frames_sent == {idx \in all : /\ At(raw, idx).platform = platform
                                               /\ At(raw, idx).instruction_addr # "none"}
             IN  prepare_leaf_copies(body.platform, raw,
                     [j \in 1..Cardinality(frames_sent) |-> At(raw, SortedSeq(frames_sent)[j])],
                     frames_sent, body.stacks, 1)
        ELSE prepare_leaf_copies(body.platform, raw, raw, {}, body.stacks, 1)

\* what the collaborator returns for the frames of a stacktrace: for the j-th
\* frame sent, counts[j] frames one after the other (none when it drops the frame,
\* several when calls were inlined into it, callee first), with original_index j
\* or without original_index
symbolicated_frames_of(frames, counts, with_index) ==
    Flatten([j \in 1..Len(frames) |->
               [k \in 1..counts[j] |->
                  [frames[j] EXCEPT !.symbolicated = TRUE,
                                    !.original_index = IF with_index THEN j - 1 ELSE NoIndex,
                                    !.fn = IF k = counts[j] THEN @ ELSE "inlined"]]])

get_frame_index_map(frames) ==
    LET key(i) == IF At(frames, i).original_index = NoIndex THEN i
                  ELSE At(frames, i).original_index
        all == 0..(Len(frames) - 1)
    IN  [k \in {key(i) : i \in all} |-> SortedSeq({i \in all : key(i) = k})]

\* the walk over the raw frames leaving out the frames that were not sent
RECURSIVE new_frames_dropping_unsent(_, _, _, _, _, _)
new_frames_dropping_unsent(raw_frames, frames_sent, symbolicated_frames, index_map, idx, slot) ==
    IF idx >= Len(raw_frames) THEN [frames |-> <<>>, raised |-> FALSE]
    ELSE IF idx \notin frames_sent
    THEN new_frames_dropping_unsent(raw_frames, frames_sent, symbolicated_frames, index_map,
                                    idx + 1, slot)
    ELSE IF slot \notin DOMAIN index_map THEN [frames |-> <<>>, raised |-> TRUE]
    ELSE LET rest == new_frames_dropping_unsent(raw_frames, frames_sent, symbolicated_frames,
                                                index_map, idx + 1, slot + 1)
         IN  [frames |-> [j \in 1..Len(index_map[slot]) |->
                            At(symbolicated_frames, index_map[slot][j])] \o rest.frames,
              raised |-> rest.raised]

\* the walk over the raw frames when a subset was sent: a frame that was not sent
\* is kept, a frame that was sent is replaced by the frames of the next entry of
\* the map, a KeyError when the map has no such entry
RECURSIVE new_frames(_, _, _, _, _, _)
new_frames(raw_frames, frames_sent, symbolicated_frames, index_map, idx, slot) ==
    IF idx >= Len(raw_frames) THEN [frames |-> <<>>, raised |-> FALSE]
    ELSE IF idx \notin frames_sent
    THEN LET rest == new_frames(raw_frames, frames_sent, symbolicated_frames, index_map,
                                idx + 1, slot)
         IN  [frames |-> <<At(raw_frames, idx)>> \o rest.frames, raised |-> rest.raised]
    ELSE IF slot \notin DOMAIN index_map THEN [frames |-> <<>>, raised |-> TRUE]
    ELSE LET rest == new_frames(raw_frames, frames_sent, symbolicated_frames, index_map,
                                idx + 1, slot + 1)
         IN  [frames |-> [j \in 1..Len(index_map[slot]) |->
                            At(symbolicated_frames, index_map[slot][j])] \o rest.frames,
              raised |-> rest.raised]

\* new_frames_count, which the assertion compares with len(new_frames)
new_frames_count(raw_frames, index_map) ==
    Len(raw_frames) + Len(Flatten([j \in 1..Cardinality(DOMAIN index_map) |->
                                      index_map[SortedSeq(DOMAIN index_map)[j]]]))
                    - Cardinality(DOMAIN index_map)

\* get_stack for a platform of SHOULD_SYMBOLICATE
get_stack(stack, index_map) ==
    Flatten([j \in 1..Len(stack) |->
               IF stack[j] \in DOMAIN index_map THEN index_map[stack[j]] ELSE <<stack[j]>>])

\* stack[lo:] and stack[:-2]
DropFirst2(stack) == SubSeq(stack, 3, Len(stack))

DropLast2(stack) == SubSeq(stack, 1, Len(stack) - 2)

\* truncate_stack_needed without the removal of the profiler's frames of a rust stack
truncate_stack_needed_keeping_top(platform, frames, stack) ==
    CASE platform = "rust" ->
           LET pos == IF Len(stack) = 1 THEN 1 ELSE Len(stack) - 1
           IN  IF ~InRange(frames, stack[pos]) THEN [stack |-> stack, raised |-> TRUE]
               ELSE [stack |-> IF FunctionOf(At(frames, stack[pos])) = ""
                               THEN DropLast2(stack) ELSE stack,
                     raised |-> FALSE]
      [] platform = "cocoa" ->
           IF ~InRange(frames, stack[Len(stack)]) THEN [stack |-> stack, raised |-> TRUE]
           ELSE [stack |-> IF At(frames, stack[Len(stack)]).instruction_addr = "0xffffffffc"
                           THEN DropLast2(stack) ELSE stack,
                 raised |-> FALSE]
      [] OTHER -> [stack |-> stack, raised |-> FALSE]

\* truncate_stack_needed, called for a stack of 2 frames or more; an index that is
\* no position of frames, or of the stack, is an IndexError
truncate_stack_needed(platform, frames, stack) ==
    CASE platform = "rust" ->
           IF ~InRange(frames, stack[1]) THEN [stack |-> stack, raised |-> TRUE]
           ELSE LET s1 == IF FunctionOf(At(frames, stack[1])) = "perf_signal_handler"
                          THEN DropFirst2(stack) ELSE stack
                    \* s1[len(s1) - 2]: the index -1 is the last element
                    pos == IF Len(s1) = 1 THEN 1 ELSE Len(s1) - 1
                IN  IF Len(s1) = 0 \/ ~InRange(frames, s1[pos])
                    THEN [stack |-> s1, raised |-> TRUE]
                    ELSE [stack |-> IF FunctionOf(At(frames, s1[pos])) = ""
                                    THEN DropLast2(s1) ELSE s1,
                          raised |-> FALSE]
      [] platform = "cocoa" ->
           IF ~InRange(frames, stack[Len(stack)]) THEN [stack |-> stack, raised |-> TRUE]
           ELSE [stack |-> IF At(frames, stack[Len(stack)]).instruction_addr = "0xffffffffc"
                           THEN DropLast2(stack) ELSE stack,
                 raised |-> FALSE]
      [] OTHER -> [stack |-> stack, raised |-> FALSE]

\* the loop over the stacks truncating the stacks of every length
RECURSIVE rewrite_stacks_of_every_length(_, _, _, _, _)
rewrite_stacks_of_every_length(platform, frames, stacks, index_map, k) ==
    IF k > Len(stacks) THEN [stacks |-> <<>>, raised |-> FALSE]
    ELSE LET new_stack == get_stack(stacks[k], index_map)
             t == IF Len(new_stack) >= 1 THEN truncate_stack_needed(platform, frames, new_stack)
                  ELSE [stack |-> new_stack, raised |-> FALSE]
         IN  IF t.raised THEN [stacks |-> <<>>, raised |-> TRUE]
             ELSE LET rest == rewrite_stacks_of_every_length(platform, frames, stacks,
                                                             index_map, k + 1)
                  IN  [stacks |-> <<t.stack>> \o rest.stacks, raised |-> rest.raised]

\* the loop over the stacks at the end of the merge: get_stack, then
\* truncate_stack_needed for a stack of 2 frames or more
RECURSIVE rewrite_stacks(_, _, _, _, _)
rewrite_stacks(platform, frames, stacks, index_map, k) ==
    IF k > Len(stacks) THEN [stacks |-> <<>>, raised |-> FALSE]
    ELSE LET new_stack == get_stack(stacks[k], index_map)
             t == IF Len(new_stack) >= 2 THEN truncate_stack_needed(platform, frames, new_stack)
                  ELSE [stack |-> new_stack, raised |-> FALSE]
         IN  IF t.raised THEN [stacks |-> <<>>, raised |-> TRUE]
             ELSE LET rest == rewrite_stacks(platform, frames, stacks, index_map, k + 1)
                  IN  [stacks |-> <<t.stack>> \o rest.stacks, raised |-> rest.raised]

\* the merge appending the returned frames to the profile's when no subset was sent
_process_symbolicator_results_for_sample_appending(body, symbolicated_frames, frames_sent, platform) ==
    LET index_map == get_frame_index_map(symbolicated_frames)
        walk == new_frames(body.frames, frames_sent, symbolicated_frames, index_map, 0, 0)
        failed == /\ frames_sent # {}
                  /\ \/ walk.raised
                     \/ /\ platform \in SHOULD_SYMBOLICATE_JS
                        /\ Len(walk.frames) # new_frames_count(body.frames, index_map)
        frames == IF frames_sent # {} THEN walk.frames
                  ELSE body.frames \o symbolicated_frames
    IN  IF failed THEN [frames |-> body.frames, stacks |-> body.stacks, raised |-> TRUE]
        ELSE LET r == rewrite_stacks(platform, frames, body.stacks, index_map, 1)
             IN  [frames |-> frames,
                  stacks |-> IF r.raised THEN body.stacks ELSE r.stacks,
                  raised |-> r.raised]

\* _process_symbolicator_results_for_sample: the frames and stacks it leaves in the
\* profile and whether an exception left it (the frames are assigned before the
\* stacks are rewritten, the stacks when every stack is rewritten)
_process_symbolicator_results_for_sample(body, symbolicated_frames, frames_sent, platform) ==
    LET index_map == get_frame_index_map(symbolicated_frames)
        walk == new_frames(body.frames, frames_sent, symbolicated_frames, index_map, 0, 0)
        failed == /\ frames_sent # {}
                  /\ \/ walk.raised
                     \/ /\ platform \in SHOULD_SYMBOLICATE_JS
                        /\ Len(walk.frames) # new_frames_count(body.frames, index_map)
        frames == IF frames_sent # {} THEN walk.frames
                  ELSE IF symbolicated_frames # <<>> THEN symbolicated_frames
                  ELSE body.frames
    IN  IF failed THEN [frames |-> body.frames, stacks |-> body.stacks, raised |-> TRUE]
        ELSE LET r == rewrite_stacks(platform, frames, body.stacks, index_map, 1)
             IN  [frames |-> frames,
                  stacks |-> IF r.raised THEN body.stacks ELSE r.stacks,
                  raised |-> r.raised]

\* the legacy cocoa merge keeping every frame the collaborator returned
_process_symbolicator_results_for_cocoa_keeping_all(samples, stacktraces) ==
    [s \in DOMAIN samples |-> stacktraces[s]]

\* _process_symbolicator_results_for_cocoa: every sample gets the frames of its
\* stacktrace, less the last two when there are 2 or more and the last has the
\* sentinel address
_process_symbolicator_results_for_cocoa(samples, stacktraces) ==
    [s \in DOMAIN samples |->
       LET frames == stacktraces[s]
       IN  IF Len(frames) > 1 /\ frames[Len(frames)].instruction_addr = "0xffffffffc"
           THEN DropLast2(frames) ELSE frames]

\* _process_symbolicator_results_for_rust: every sample gets the frames of its
\* stacktrace, less the first two when there are 2 or more and the first is the
\* profiler's
_process_symbolicator_results_for_rust(samples, stacktraces) ==
    [s \in DOMAIN samples |->
       LET frames == stacktraces[s]
       IN  IF Len(frames) > 1 /\ FunctionOf(frames[1]) = "perf_signal_handler"
           THEN DropFirst2(frames) ELSE frames]

\* the platforms of get_profile_platforms
body_platforms(body) ==
    <<body.platform>> \o
    (IF body.version # "legacy" /\ body.platform \in SHOULD_SYMBOLICATE_JS
        /\ \E i \in DOMAIN body.frames : body.frames[i].platform = "cocoa"
     THEN <<"cocoa">> ELSE <<>>)

\* sym while the loop of _symbolicate_profile is between two platforms: the body,
\* the platforms and the one at hand, and what the last pass did (last), on which
\* frames and stacks (before), with which answer (counts, with_index)
SymAt(body, platforms, i) ==
    [phase |-> IF i > Len(platforms) THEN "done" ELSE "prepare",
     platform |-> body.platform, version |-> body.version, samples |-> body.samples,
     frames |-> body.frames, stacks |-> body.stacks,
     platforms |-> platforms, i |-> i, frames_sent |-> {}, sent |-> <<>>,
     last |-> "none",
     before |-> [frames |-> <<>>, stacks |-> <<>>, frames_sent |-> {}, samples |-> <<>>],
     counts |-> <<>>, with_index |-> TRUE]

TaskIdle ==
    /\ args = "none"
    /\ profile = "none"
    /\ pc = "idle"
    /\ retries = 0
    /\ escaped = "none"
    /\ outcomes = <<>>
    /\ stagesRun = <<>>
    /\ calls = <<>>
    /\ sinkLog = <<>>
    /\ submitted = <<>>
    /\ durationSeen = [called |-> "no", ms |-> 0]

MergeInit ==
    /\ TaskIdle
    /\ timing = "idle"
    /\ dex = "idle"
    /\ SideIdle
    /\ \E body \in SampleBodies \cup LegacyBodies :
         sym = SymAt(body, body_platforms(body), 1)

\* the position, in the profile's frames, of the j-th frame sent
SentPosition(frames_sent, j) ==
    IF frames_sent = {} THEN j - 1 ELSE SortedSeq(frames_sent)[j]

\* _prepare_frames_from_profile for the platform at hand; every frame is stamped
\* with its position, the origin of what the merge puts in its place
PrepareFrames ==
    /\ sym.phase = "prepare"
    /\ IF sym.version = "legacy"
       THEN sym' = [sym EXCEPT !.phase = "call",
                               !.samples = prepare_legacy_samples(sym.samples)]
       ELSE
       LET prep == _prepare_frames_from_profile(sym, sym.platforms[sym.i])
       IN  sym' = [sym EXCEPT
                     !.phase = "call",
                     !.frames = [j \in 1..Len(prep.pframes) |->
                                   [prep.pframes[j] EXCEPT !.origin = j - 1]],
                     !.stacks = prep.stacks,
                     !.frames_sent = prep.frames_sent,
                     !.sent = [j \in 1..Len(prep.frames) |->
                                 [prep.frames[j] EXCEPT
                                    !.origin = SentPosition(prep.frames_sent, j)]]]
    /\ UNCHANGED <<task_vars, timing, dex, side_vars>>

\* where the loop goes after the platform at hand
NextPhase == IF sym.i + 1 > Len(sym.platforms) THEN "done" ELSE "prepare"

\* run_symbolicate returned without success: the results are not processed
SkipResults ==
    /\ sym.phase = "call"
    /\ sym' = [sym EXCEPT !.phase = NextPhase, !.i = @ + 1,
                          !.last = IF sym.version = "legacy" THEN "legacy_skipped"
                                   ELSE "skipped",
                          !.before = [frames |-> sym.frames, stacks |-> sym.stacks,
                                      frames_sent |-> sym.frames_sent,
                                      samples |-> sym.samples],
                          !.counts = <<>>, !.with_index = TRUE]
    /\ UNCHANGED <<task_vars, timing, dex, side_vars>>

\* what the collaborator returns for the samples of a legacy profile: for every
\* sample, the number of frames returned for each of its frames
LegacyAnswers(samples) ==
    { counts \in [DOMAIN samples -> SeqsUpTo(0..MaxInline, MaxFrames)] :
        \A s \in DOMAIN samples : Len(counts[s]) = Len(samples[s]) }

\* _process_symbolicator_results for a profile without version: the samples as the
\* platform's merge leaves them
_process_symbolicator_results(samples, stacktraces, platform) ==
    CASE platform = "rust"  -> _process_symbolicator_results_for_rust(samples, stacktraces)
      [] platform = "cocoa" -> _process_symbolicator_results_for_cocoa(samples, stacktraces)
      [] OTHER -> samples

\* run_symbolicate returned the collaborator's frames and
\* _process_symbolicator_results merges them; an exception ends the stage
ProcessResults ==
    /\ sym.phase = "call"
    /\ IF sym.version = "legacy"
       THEN
       \E counts \in LegacyAnswers(sym.samples), with_index \in BOOLEAN :
         LET stacktraces == [s \in DOMAIN sym.samples |->
                               symbolicated_frames_of(sym.samples[s], counts[s], with_index)]
         IN  sym' = [sym EXCEPT !.phase = NextPhase, !.i = @ + 1,
                                !.samples = _process_symbolicator_results(
                                                sym.samples, stacktraces, sym.platforms[sym.i]),
                                !.last = "legacy_merged",
                                !.before = [frames |-> sym.frames, stacks |-> sym.stacks,
                                            frames_sent |-> sym.frames_sent,
                                            samples |-> sym.samples],
                                !.counts = counts, !.with_index = with_index]
       ELSE
       \E counts \in [1..Len(sym.sent) -> 0..MaxInline], with_index \in BOOLEAN :
         LET symbolicated_frames == symbolicated_frames_of(sym.sent, counts, with_index)
             r == _process_symbolicator_results_for_sample(
                      sym, symbolicated_frames, sym.frames_sent, sym.platforms[sym.i])
         IN  sym' = [sym EXCEPT !.phase = IF r.raised THEN "failed" ELSE NextPhase,
                                !.i = @ + 1,
                                !.frames = r.frames, !.stacks = r.stacks,
                                !.last = IF r.raised THEN "raised" ELSE "merged",
                                !.before = [frames |-> sym.frames, stacks |-> sym.stacks,
                                            frames_sent |-> sym.frames_sent,
                                            samples |-> sym.samples],
                                !.counts = counts, !.with_index = with_index]
    /\ UNCHANGED <<task_vars, timing, dex, side_vars>>

MergeNext ==
    \/ PrepareFrames
    \/ SkipResults
    \/ ProcessResults

MergeSpec == MergeInit /\ [][MergeNext]_vars

----------------------------------------------------------------------------
(* C12, C13 *)

\* the collaborator returned at least one frame for every frame sent
EveryFrameAnswered == \A j \in DOMAIN sym.counts : sym.counts[j] >= 1

ValidStacks(frames, stacks) ==
    \A k \in DOMAIN stacks : \A j \in DOMAIN stacks[k] : InRange(frames, stacks[k][j])

LastPlatform == sym.platforms[sym.i - 1]

\* the positions, in the profile's frames after the merge, of the frames that stem
\* from the frame at position idx of the frames before the merge
PositionsFrom(idx) ==
    SortedSeq({p \in 0..(Len(sym.frames) - 1) : At(sym.frames, p).origin = idx})

\* a stack of before the merge with every index replaced, in place and in order, by
\* the positions of the frames that stem from that frame
ExpandedStack(stack) ==
    Flatten([j \in 1..Len(stack) |-> PositionsFrom(stack[j])])

\* the platform's truncation applied to a stack of 2 frames or more
Truncated(stack) ==
    IF Len(stack) >= 2 THEN truncate_stack_needed(LastPlatform, sym.frames, stack).stack
    ELSE stack

\* C13, as claimed: after a merge of an answer that holds, for every frame sent,
\* the frames that stem from it under its original_index, each stack is the stack
\* of before the merge with every index replaced in place by the positions, in the
\* new frames array, of exactly the frames that stem from the frame it referred to
\* (then truncated as the platform asks); also when only a subset of the frames
\* was sent, an index of a frame that was not sent resolving to that same frame.
C13_StacksFollowTheirFrames ==
    (sym.last = "merged" /\ EveryFrameAnswered /\ sym.with_index) =>
        /\ Len(sym.stacks) = Len(sym.before.stacks)
        /\ \A k \in DOMAIN sym.stacks :
             sym.stacks[k] = Truncated(ExpandedStack(sym.before.stacks[k]))

----------------------------------------------------------------------------
(* The duration of a v1 profile and the duration outcome                     *)

\* Times are held in microseconds: the code's nanosecond values, which here are
\* multiples of 1000 and on which int(duration_ns * 1e-6) is the division by 10^6
\* rounded towards zero.
TicksPerMs == 1000

\* the cap of the v1 duration, in milliseconds
MaxDurationMs == 30000

\* the most samples of a profile
MaxSamples == 3

\* relative_start_ns and relative_end_ns of profile["transaction"], either of which
\* may be missing, and elapsed_since_start_ns of the samples
StartValues == {0, 1000, 2500}

EndValues == {0, 1000, 1500, 4200, 30002500, 45000000}

ElapsedValues == {0, 1500, 3700, 40000000}

Min(a, b) == IF a <= b THEN a ELSE b

\* the samples left in the order they came in
unsorted(s) ==
    s

\* sorted(samples, key=elapsed_since_start_ns)
RECURSIVE sorted(_)
sorted(s) ==
    IF s = <<>> THEN <<>>
    ELSE LET i == CHOOSE i \in DOMAIN s : \A j \in DOMAIN s : s[i] <= s[j]
         IN  <<s[i]>> \o sorted([j \in 1..(Len(s) - 1) |-> IF j < i THEN s[j] ELSE s[j + 1]])

\* the duration taken from the samples whenever there are two of them
_calculate_duration_for_sample_format_v1_from_samples(transaction, samples) ==
    LET start_ns == IF transaction.has_start THEN transaction.relative_start_ns ELSE 0
        end_ns == IF transaction.has_end THEN transaction.relative_end_ns ELSE 0
        s == sorted(samples)
        duration_ns == IF Len(s) >= 2 THEN s[Len(s)] - s[1] ELSE end_ns - start_ns
    IN  Min(duration_ns \div TicksPerMs, MaxDurationMs)

\* _calculate_duration_for_sample_format_v1: a missing relative_start_ns or
\* relative_end_ns reads as 0
_calculate_duration_for_sample_format_v1(transaction, samples) ==
    LET start_ns == IF transaction.has_start THEN transaction.relative_start_ns ELSE 0
        end_ns == IF transaction.has_end THEN transaction.relative_end_ns ELSE 0
        s == sorted(samples)
    IN  IF end_ns - start_ns > 0
        THEN Min((end_ns - start_ns) \div TicksPerMs, MaxDurationMs)
        ELSE IF Len(s) < 2 THEN 0
        ELSE Min((s[Len(s)] - s[1]) \div TicksPerMs, MaxDurationMs)

Transactions ==
    { [has_start |-> hs, relative_start_ns |-> st, has_end |-> he, relative_end_ns |-> en] :
        hs \in BOOLEAN, st \in StartValues, he \in BOOLEAN, en \in EndValues }

\* a key that is missing has no value to vary
WellFormedTransaction(t) ==
    /\ ~t.has_start => t.relative_start_ns = 0
    /\ ~t.has_end => t.relative_end_ns = 0

DurationInit ==
    /\ TaskIdle
    /\ sym = "idle"
    /\ dex = "idle"
    /\ SideIdle
    /\ \E t \in {x \in Transactions : WellFormedTransaction(x)},
          samples \in SeqsUpTo(ElapsedValues, MaxSamples) :
         timing = [phase |-> "accepted", transaction |-> t, samples |-> samples,
                   duration_ms |-> 0, outcomes |-> <<>>]

\* _track_duration_outcome for an accepted v1 profile
TrackDuration ==
    /\ timing.phase = "accepted"
    /\ LET d == _calculate_duration_for_sample_format_v1(timing.transaction, timing.samples)
       IN  timing' = [timing EXCEPT !.phase = "tracked", !.duration_ms = d,
                                    !.outcomes = _track_duration_outcome(<<>>, 1, d)]
    /\ UNCHANGED <<task_vars, sym, dex, side_vars>>

DurationNext == TrackDuration

DurationSpec == DurationInit /\ [][DurationNext]_vars

----------------------------------------------------------------------------
(* C15, C16 *)

StartOf(t) == IF t.has_start THEN t.relative_start_ns ELSE 0

EndOf(t) == IF t.has_end THEN t.relative_end_ns ELSE 0

Elapsed == {timing.samples[i] : i \in DOMAIN timing.samples}

\* the span of the samples: the largest elapsed_since_start_ns less the smallest
SampleSpan ==
    (CHOOSE x \in Elapsed : \A y \in Elapsed : y <= x)
    - (CHOOSE x \in Elapsed : \A y \in Elapsed : x <= y)

\* the duration outcome is the single outcome of quantity ms when ms is positive,
\* and there is none otherwise
DurationOutcomeIs(ms) ==
    IF ms > 0
    THEN /\ Len(timing.outcomes) = 1
         /\ timing.outcomes[1].category = "PROFILE_DURATION"
         /\ timing.outcomes[1].quantity = ms
    ELSE timing.outcomes = <<>>

\* C15: for a v1 profile with relative_end_ns - relative_start_ns > 0 the duration
\* is that difference in whole milliseconds, at most 30000, whatever the samples
\* are, and it is the quantity of the duration outcome (no outcome is emitted for a
\* difference below one millisecond).
C15_DurationFromTransaction ==
    LET diff == EndOf(timing.transaction) - StartOf(timing.transaction)
    IN  (timing.phase = "tracked" /\ diff > 0) =>
            /\ timing.duration_ms =
                 (IF diff \div TicksPerMs > MaxDurationMs THEN MaxDurationMs
                  ELSE diff \div TicksPerMs)
            /\ DurationOutcomeIs(timing.duration_ms)

\* a difference above the cap next to samples that span something else
C15_Witness ==
    /\ timing.phase = "tracked"
    /\ timing.transaction.has_start /\ timing.transaction.has_end
    /\ timing.transaction.relative_end_ns - timing.transaction.relative_start_ns
         > MaxDurationMs * TicksPerMs
    /\ Len(timing.samples) >= 2 /\ SampleSpan = 1500
    /\ Len(timing.outcomes) = 1 /\ timing.outcomes[1].quantity = MaxDurationMs

----------------------------------------------------------------------------
(* Deobfuscation of the methods of an android profile: _deobfuscate without  *)
(* build_id and _deobfuscate_locally                                         *)

\* the most methods of a profile, the most frames remap_frame returns
MaxMethods == 1

MaxMapped == 2

\* a method of profile["profile"]["methods"] as it comes in: obfuscated names, a
\* signature in the obfuscated form ("raw") or no signature key, a source_line
\* that is a number ("n"), null or no key, a source_file or no key
Method(signature, source_line, source_file) ==
    [class_name |-> "a.b", name |-> "c", signature |-> signature,
     source_line |-> source_line, source_file |-> source_file, has_data |-> FALSE,
     deobfuscation_status |-> "unset", inline_frames |-> 0, inline_status |-> "unset",
     inline_signature |-> "unset"]

InputMethods ==
    { Method(signature, source_line, source_file) :
        signature \in {"absent", "raw"}, source_line \in {"absent", "null", "n"},
        source_file \in {"absent", "f"} }

\* what the mapper answers for one method: the number of frames remap_frame
\* returns, whether the last of them carries a line and a file, whether
\* remap_class finds the class
MapperAnswers ==
    [mapped : 0..MaxMapped, line : BOOLEAN, file : BOOLEAN, class : BOOLEAN]

NoAnswer ==
    [mapped |-> 0, line |-> FALSE, file |-> FALSE, class |-> FALSE]

\* m["signature"] = format_signature(deobfuscate_signature(m["signature"])) for a
\* method that has a signature
decode_signature(m) ==
    IF m.signature = "raw" THEN [m EXCEPT !.signature = "decoded"] ELSE m

\* the status of a remapped method not looking at its signature
remapped_status_whatever_signature(m) ==
    "deobfuscated"

\* the deobfuscation_status of a method remap_frame found frames for
remapped_status(m) ==
    IF m.signature # "absent" THEN "deobfuscated" ELSE "partial"

\* the body of the loop of _deobfuscate_locally over the methods: the method as
\* the body leaves it, and whether the body raised a KeyError, which it does on
\* method["source_line"] for a method with neither signature nor source_line key
\* and on method["source_file"] when neither the method nor the frame has a file
remap_method(method, answer) ==
    LET m1 == decode_signature([method EXCEPT !.has_data = TRUE])
    IN  IF m1.signature = "absent" /\ m1.source_line = "absent"
        THEN [method |-> m1, raised |-> TRUE]
        ELSE IF answer.mapped >= 1
        THEN LET m2 == [m1 EXCEPT !.class_name = "com.example.Clear",
                                  !.name = "clear",
                                  !.deobfuscation_status = remapped_status(m1),
                                  !.source_file = IF answer.file THEN "f" ELSE @,
                                  !.source_line = IF answer.line THEN "n" ELSE @]
             IN  IF m2.source_line \in {"absent", "null"} /\ m2.signature # "absent"
                 THEN [method |-> m2, raised |-> FALSE]
                 ELSE IF m2.source_file = "absent"
                 THEN [method |-> m2, raised |-> TRUE]
                 ELSE [method |->
                         [m2 EXCEPT !.inline_frames = answer.mapped,
                                    !.inline_status = m2.deobfuscation_status,
                                    !.inline_signature =
                                        IF m2.signature = "absent" THEN ""
                                        ELSE m2.signature],
                       raised |-> FALSE]
        ELSE IF answer.class
        THEN [method |-> [m1 EXCEPT !.class_name = "com.example.Clear",
                                    !.deobfuscation_status = "partial"],
              raised |-> FALSE]
        ELSE [method |-> [m1 EXCEPT !.deobfuscation_status = "missing"],
              raised |-> FALSE]

\* _deobfuscate_locally on the methods: nothing is done without a mapping file for
\* the build_id or with a mapper without line information; with them the methods
\* are remapped in order up to the first one that raises
deobfuscate_methods_locally(methods, artifact, answers) ==
    IF artifact # "mapping" THEN [methods |-> methods, raised |-> FALSE]
    ELSE LET r == [i \in DOMAIN methods |-> remap_method(methods[i], answers[i])]
             raising == { i \in DOMAIN methods : r[i].raised }
         IN  [methods |-> [i \in DOMAIN methods |->
                             IF \A j \in raising : i <= j THEN r[i].method
                             ELSE methods[i]],
              raised |-> raising # {}]

\* _deobfuscate on the methods of a profile without build_id
deobfuscate_methods_without_build_id(methods) ==
    [i \in DOMAIN methods |-> decode_signature(methods[i])]

DexInit ==
    /\ TaskIdle
    /\ sym = "idle"
    /\ timing = "idle"
    /\ SideIdle
    /\ \E build_id \in BOOLEAN, n \in 1..MaxMethods :
         \E methods \in [1..n -> InputMethods] :
           dex = [phase |-> "deobfuscate", build_id |-> build_id, input |-> methods,
                  methods |-> methods, artifact |-> "none",
                  answers |-> [i \in 1..n |-> NoAnswer]]

\* _deobfuscate for a profile without build_id
DecodeSignatures ==
    /\ dex.phase = "deobfuscate"
    /\ ~dex.build_id
    /\ dex' = [dex EXCEPT !.phase = "done",
                          !.methods = deobfuscate_methods_without_build_id(dex.methods)]
    /\ UNCHANGED <<task_vars, sym, timing, side_vars>>

\* _deobfuscate for a profile with a build_id and the local strategy
DeobfuscateLocally ==
    /\ dex.phase = "deobfuscate"
    /\ dex.build_id
    /\ \E artifact \in {"absent", "no_line_info", "mapping"} :
         \E answers \in [DOMAIN dex.methods ->
                           IF artifact = "mapping" THEN MapperAnswers ELSE {NoAnswer}] :
           LET r == deobfuscate_methods_locally(dex.methods, artifact, answers)
           IN  dex' = [dex EXCEPT !.phase = IF r.raised THEN "raised" ELSE "done",
                                  !.artifact = artifact, !.answers = answers,
                                  !.methods = r.methods]
    /\ UNCHANGED <<task_vars, sym, timing, side_vars>>

DexNext ==
    \/ DecodeSignatures
    \/ DeobfuscateLocally

DexSpec == DexInit /\ [][DexNext]_vars

----------------------------------------------------------------------------
(* C17 *)

\* the job's profile is a legacy android profile with a body and no build_id
LegacyAndroidNoBuildId ==
    /\ pc # "idle"
    /\ args.profile.version = "legacy"
    /\ args.profile.platform = "android"
    /\ args.profile.body
    /\ ~args.profile.build_id

\* C17: for a legacy android profile without build_id the deobfuscation stage
\* looks no mapping up and calls no collaborator: it only decodes the signatures
\* (class_name and name of the methods are the input's), sets deobfuscated and
\* returns true, false only when the decoding raised; normalization then stores
\* the classification under device_classification; and a run the sink answered
\* with 204 has emitted ACCEPTED as its one terminal outcome.
C17_LegacyAndroidWithoutBuildId ==
    LegacyAndroidNoBuildId =>
        /\ StageResult("deobfuscate") # "absent" =>
             /\ CallsOf("deobfuscate") = {}
             /\ profile.methods \in {"raw", "signatures_decoded"}
             /\ StageResult("deobfuscate") = "true" =>
                  profile.deobfuscated /\ profile.methods = "signatures_decoded"
             /\ StageResult("deobfuscate") = "false" =>
                  /\ ~profile.deobfuscated
                  /\ \E i \in InvalidIdx(attempt) :
                       outcomes[i].reason = "profiling_failed_deobfuscation"
        /\ StageResult("normalize") = "true" =>
             profile.normalized /\ profile.classification = "device_classification"
        /\ (Accepted /\ pc = "returned") =>
             /\ Cardinality(TerminalIdx(attempt)) = 1
             /\ \A i \in TerminalIdx(attempt) : outcomes[i].outcome = "ACCEPTED"

\* such a profile went through the whole pipeline in its first run and was accepted
C17_Witness ==
    /\ LegacyAndroidNoBuildId
    /\ retries = 0
    /\ pc = "returned"
    /\ StageResult("deobfuscate") = "true"
    /\ profile.deobfuscated /\ profile.methods = "signatures_decoded"
    /\ profile.classification = "device_classification"
    /\ Accepted
    /\ \E i \in TerminalIdx(attempt) : outcomes[i].outcome = "ACCEPTED"

(* C18 *)

\* the local strategy has run on the methods of a profile with a build_id
LocallyDone ==
    /\ dex.phase = "done"
    /\ dex.build_id

\* C18: in the local strategy every method that has a signature gets it decoded,
\* with or without a mapping artifact; without the artifact class_name and name of
\* every method are the input's, no method is marked missing and the signatures
\* are those a profile without build_id would get.
C18_SignaturesDecodedWithoutArtifact ==
    LocallyDone =>
        /\ \A i \in DOMAIN dex.methods :
             dex.input[i].signature = "raw" => dex.methods[i].signature = "decoded"
        /\ dex.artifact = "absent" =>
             \A i \in DOMAIN dex.methods :
               /\ dex.methods[i].class_name = dex.input[i].class_name
               /\ dex.methods[i].name = dex.input[i].name
               /\ dex.methods[i].deobfuscation_status # "missing"
               /\ dex.methods[i].signature =
                    deobfuscate_methods_without_build_id(dex.input)[i].signature

----------------------------------------------------------------------------
(* C19 *)

\* the local strategy has run with a mapping file that has line information
MappedLocally ==
    LocallyDone /\ dex.artifact = "mapping"

\* C19 as stated: with a mapping artifact the deobfuscation_status of a method
\* follows from the remap result alone: deobfuscated when remap_frame found the
\* method, partial when only remap_class found the class, missing when neither
\* did, whether or not the method has a signature.
C19_StatusByRemapAlone ==
    MappedLocally =>
        \A i \in DOMAIN dex.methods :
          dex.methods[i].deobfuscation_status =
            IF dex.answers[i].mapped >= 1 THEN "deobfuscated"
            ELSE IF dex.answers[i].class THEN "partial"
            ELSE "missing"

\* C19 amended: with a mapping artifact the deobfuscation_status of a method is
\* deobfuscated when remap_frame found the method and the method has a
\* signature, partial when remap_frame found the method and the method has no
\* signature or when only remap_class found the class, missing when neither did.
C19_StatusByRemapAndSignature ==
    MappedLocally =>
        \A i \in DOMAIN dex.methods :
          dex.methods[i].deobfuscation_status =
            IF dex.answers[i].mapped >= 1
            THEN IF dex.input[i].signature # "absent" THEN "deobfuscated" ELSE "partial"
            ELSE IF dex.answers[i].class THEN "partial"
            ELSE "missing"

\* a method without signature that remap_frame found
C19_Witness ==
    /\ MappedLocally
    /\ \E i \in DOMAIN dex.methods :
         /\ dex.answers[i].mapped >= 1
         /\ dex.input[i].signature = "absent"
         /\ dex.methods[i].class_name = "com.example.Clear"
         /\ dex.methods[i].name = "clear"
         /\ dex.methods[i].deobfuscation_status = "partial"
         /\ dex.methods[i].inline_status = "partial"

----------------------------------------------------------------------------

(* C20 *)

\* the responses of the collaborator that carry no usable stacktraces: an
\* exception, a timeout, no response, a response without stacktraces
RemoteFailures == Responses \ {"completed"}

\* C20: a deobfuscation stage that asked the collaborator (the remote strategy)
\* and got an exception, a timeout, no response or a response without stacktraces
\* returns true, emits no outcome, leaves profile.methods as it was, and the task
\* goes on towards normalization: to the normalization stage, with the hybrid
\* pass before it when the profile carries a js_profile.
C20_RemoteFailureIsNoOp ==
    [][ (/\ pc = "deobfuscate"
         /\ \E i \in DOMAIN calls' :
              /\ i > Len(calls)
              /\ calls'[i].stage = "deobfuscate"
              /\ calls'[i].response \in RemoteFailures) =>
            /\ stagesRun' = Append(stagesRun, [stage |-> "deobfuscate", result |-> "true"])
            /\ outcomes' = outcomes
            /\ profile'.methods = profile.methods
            /\ profile' = [profile EXCEPT !.deobfuscated = TRUE]
            /\ escaped' = escaped
            /\ pc' = IF profile.js_profile.present THEN "hybrid" ELSE "normalize" ]_vars

\* a run whose deobfuscation call timed out or raised, with the methods left raw,
\* went through normalization and was accepted
C20_Witness ==
    /\ pc = "returned"
    /\ \E i \in CallsOf("deobfuscate") : calls[i].response \in {"timeout", "error"}
    /\ StageResult("deobfuscate") = "true"
    /\ profile.methods = "raw"
    /\ StageResult("normalize") = "true"
    /\ Accepted
    /\ InvalidIdx(attempt) = {}

----------------------------------------------------------------------------

(* C24 *)

\* _process_symbolicator_results_for_sample has just run (and returned or raised)
JustProcessed == sym.last \in {"merged", "raised"} /\ sym.phase # "call"

JustMerged == sym.last = "merged" /\ sym.phase # "call"

\* the frames the collaborator returned in the last pass
Answer == symbolicated_frames_of(sym.sent, sym.counts, sym.with_index)

\* C24: when frames_sent is empty the merge leaves the profile's frames as they
\* were if the collaborator returned no frame, and otherwise makes them the
\* returned frames, all of them and nothing else.
C24_WholesaleWithoutFramesSent ==
    (JustProcessed /\ sym.before.frames_sent = {}) =>
        sym.frames = IF Answer = <<>> THEN sym.before.frames ELSE Answer

\* no subset was sent and the returned frames, more than the profile had, took the
\* place of the profile's frames
C24_Witness ==
    /\ JustMerged
    /\ sym.before.frames_sent = {}
    /\ sym.before.frames # <<>>
    /\ Len(Answer) > Len(sym.before.frames)
    /\ sym.frames = Answer
    /\ sym.frames # sym.before.frames

----------------------------------------------------------------------------

(* C25, C26, C28 *)

\* the k-th stack of before the merge after get_stack expanded its indices
NewStack(k) == get_stack(sym.before.stacks[k], get_frame_index_map(Answer))

\* the function of the frame the j-th index of a stack refers to
FunctionAt(stack, j) == FunctionOf(At(sym.frames, stack[j]))

StartsWithMarker(stack) ==
    /\ stack # <<>>
    /\ InRange(sym.frames, stack[1])
    /\ FunctionAt(stack, 1) = "perf_signal_handler"

\* C25, as claimed: after the merge for rust a stack whose first frame is named
\* perf_signal_handler is the expanded stack without its first two indices, and
\* any other stack is the expanded stack itself.
C25_RustTopTruncationOnly ==
    (JustMerged /\ LastPlatform = "rust") =>
        \A k \in DOMAIN sym.stacks :
          sym.stacks[k] = IF StartsWithMarker(NewStack(k)) THEN DropFirst2(NewStack(k))
                          ELSE NewStack(k)

\* what the removal of the unsymbolicated frames at the bottom makes of a stack:
\* the frame looked at is the second to last, the only one when the stack has
\* one; a stack with no frame to look at has nothing removed
BottomCut(stack) ==
    LET j == IF Len(stack) = 1 THEN 1 ELSE Len(stack) - 1
    IN  IF stack = <<>> THEN stack
        ELSE IF ~InRange(sym.frames, stack[j]) THEN stack
        ELSE IF FunctionAt(stack, j) = "" THEN DropLast2(stack) ELSE stack

\* C25 amended: after the merge for rust an expanded stack of fewer than 2 frames
\* is left as it is; one of 2 frames or more loses its first two indices when its
\* first frame is named perf_signal_handler, and then, marker or not, its last
\* two indices as well when the function of its second-to-last frame (of its only
\* frame when one is left) is empty; a stack of exactly 2 frames that starts with
\* the marker makes the merge raise.
C25_RustTopAndBottomTruncation ==
    /\ (JustMerged /\ LastPlatform = "rust") =>
         \A k \in DOMAIN sym.stacks :
           LET s == NewStack(k)
           IN  sym.stacks[k] =
                 IF Len(s) < 2 THEN s
                 ELSE BottomCut(IF StartsWithMarker(s) THEN DropFirst2(s) ELSE s)
    /\ (JustProcessed /\ LastPlatform = "rust") =>
         ((\E k \in DOMAIN sym.before.stacks :
              Len(NewStack(k)) = 2 /\ StartsWithMarker(NewStack(k)))
          => sym.last = "raised")

\* a rust stack of three frames that starts with the marker lost its first two
\* indices and nothing else
C25_Witness ==
    /\ JustMerged
    /\ LastPlatform = "rust"
    /\ \E k \in DOMAIN sym.stacks :
         /\ Len(NewStack(k)) >= 3
         /\ StartsWithMarker(NewStack(k))
         /\ sym.stacks[k] = DropFirst2(NewStack(k))
         /\ sym.stacks[k] # <<>>

\* C26: after a merge a stack of fewer than 2 frames, counted after the expansion
\* of its indices, is the expanded stack, whatever the platform; and for a
\* platform other than rust and cocoa every stack is its expanded stack.
C26_NoTruncationOfShortStacks ==
    JustMerged =>
        \A k \in DOMAIN sym.stacks :
          (Len(NewStack(k)) < 2 \/ LastPlatform \notin {"rust", "cocoa"}) =>
              sym.stacks[k] = NewStack(k)

\* a cocoa stack of one frame whose instruction address is the sentinel was kept
C26_Witness ==
    /\ JustMerged
    /\ LastPlatform = "cocoa"
    /\ \E k \in DOMAIN sym.stacks :
         /\ Len(NewStack(k)) = 1
         /\ InRange(sym.frames, NewStack(k)[1])
         /\ At(sym.frames, NewStack(k)[1]).instruction_addr = "0xffffffffc"
         /\ sym.stacks[k] = NewStack(k)

\* s is t without some of its first and some of its last elements
Contiguous(s, t) ==
    \E lo \in 1..(Len(t) + 1) : \E hi \in 0..Len(t) : s = SubSeq(t, lo, hi)

\* C28, as claimed: the merge for rust of an answer that holds a frame for every
\* frame sent does not raise; every stack of 2 frames or more comes out as a
\* contiguous part of its expanded stack, and a stack of exactly two frames that
\* starts with perf_signal_handler comes out empty.
C28_RustTruncationNeverRaises ==
    (JustProcessed /\ LastPlatform = "rust" /\ EveryFrameAnswered) =>
        /\ sym.last = "merged"
        /\ \A k \in DOMAIN sym.stacks :
             Len(NewStack(k)) >= 2 =>
                 /\ Contiguous(sym.stacks[k], NewStack(k))
                 /\ (Len(NewStack(k)) = 2 /\ StartsWithMarker(NewStack(k))) =>
                        sym.stacks[k] = <<>>

----------------------------------------------------------------------------

(* C29 *)

\* the last pass was a merge for a JS platform of a profile that had sent a subset
\* of its frames
JsSubsetProcessed ==
    /\ JustProcessed
    /\ LastPlatform \in SHOULD_SYMBOLICATE_JS
    /\ sym.before.frames_sent # {}

\* the walk found its entries and the assertion held: the merge returned, and the
\* new frames are as many as the raw frames plus the returned frames less the keys
\* of the map
WalkAndAssertionHeld ==
    /\ sym.last = "merged"
    /\ Len(sym.frames) = Len(sym.before.frames) + Len(Answer)
                           - Cardinality(DOMAIN get_frame_index_map(Answer))

\* C29, as claimed: whatever the collaborator returned for the frames sent (frames
\* dropped, inlines added, with or without original_index), the walk of a JS merge
\* with a non-empty frames_sent finds an entry of the map for every sent frame and
\* the assertion on the number of new frames holds.
C29_JsWalkNeverFails ==
    JsSubsetProcessed => WalkAndAssertionHeld

\* C29 amended: the same for every answer that holds at least one frame for every
\* frame sent (inlines added, with or without original_index).
C29_JsWalkOfAnsweredFrames ==
    (JsSubsetProcessed /\ EveryFrameAnswered) => WalkAndAssertionHeld

\* a JS merge in which one frame was not sent and a sent frame came back with an
\* inlined frame
C29_Witness ==
    /\ JsSubsetProcessed
    /\ EveryFrameAnswered
    /\ sym.last = "merged"
    /\ Cardinality(sym.before.frames_sent) < Len(sym.before.frames)
    /\ \E j \in DOMAIN sym.counts : sym.counts[j] >= 2
    /\ sym.with_index
    /\ Len(sym.frames) = Len(sym.before.frames) + 1

----------------------------------------------------------------------------

(* C27 *)

HasSentinel(frame) == frame.instruction_addr = "0xffffffffc"

\* the frames the collaborator returned for the s-th sample of a legacy profile
LegacyAnswer(s) ==
    symbolicated_frames_of(sym.before.samples[s], sym.counts[s], sym.with_index)

\* C27: after the merge for cocoa an expanded stack of 2 frames or more is without
\* its last two indices when the instruction address of its last frame is
\* 0xffffffffc and is the expanded stack otherwise; after the legacy merge for
\* cocoa every sample's frames are the frames returned for it, by the same rule.
C27_CocoaSentinelTruncation ==
    /\ (JustMerged /\ LastPlatform = "cocoa") =>
         \A k \in DOMAIN sym.stacks :
           LET s == NewStack(k)
           IN  Len(s) >= 2 =>
                 sym.stacks[k] = IF HasSentinel(At(sym.frames, s[Len(s)]))
                                 THEN DropLast2(s) ELSE s
    /\ (sym.last = "legacy_merged" /\ sym.platform = "cocoa") =>
         \A s \in DOMAIN sym.samples :
           LET frames == LegacyAnswer(s)
           IN  sym.samples[s] = IF Len(frames) >= 2 /\ HasSentinel(frames[Len(frames)])
                                THEN DropLast2(frames) ELSE frames

\* a legacy cocoa sample whose returned frames, three or more, ended with the
\* sentinel and lost the last two
C27_Witness ==
    /\ sym.last = "legacy_merged"
    /\ sym.platform = "cocoa"
    /\ \E s \in DOMAIN sym.samples :
         /\ Len(LegacyAnswer(s)) >= 3
         /\ HasSentinel(LegacyAnswer(s)[Len(LegacyAnswer(s))])
         /\ sym.samples[s] = DropLast2(LegacyAnswer(s))
         /\ sym.samples[s] # <<>>

----------------------------------------------------------------------------

----------------------------------------------------------------------------
(* The first-profile-received signal over the runs of one project
   (task.py, process_profile_task 174-180 and _track_outcome 958-977) *)

\* the runs of one project that are followed
MaxRuns == 4

\* "version" of a profile: absent in the legacy format, "1" sample format, "2" chunk
ProfileVersions == {"legacy", "1", "2"}

\* the receiver of first_profile_received: it records the project's first profile
\* by setting the has_profiles flag
record_first_profile(p) == [p EXCEPT !.has_profiles = TRUE]

\* _track_outcome as the project sees it: the signal goes out whenever the project's flag is unset,
\* whatever the outcome, and then the outcome is tracked
_track_outcome_of_project(p, outcome, version) ==
    LET signal == ~p.has_profiles
        q == IF signal THEN record_first_profile(p) ELSE p
    IN  [q EXCEPT !.runs = Append(@, [outcome |-> outcome, version |-> version,
                                      tracked |-> TRUE, flag_before |-> p.has_profiles,
                                      signal |-> signal])]

\* a run that tracks nothing leaves the project as it was
untracked(p, outcome, version) ==
    [p EXCEPT !.runs = Append(@, [outcome |-> outcome, version |-> version,
                                  tracked |-> FALSE, flag_before |-> p.has_profiles,
                                  signal |-> FALSE])]

SignalInit ==
    /\ TaskIdle
    /\ sym = "idle"
    /\ timing = "idle"
    /\ dex = "idle"
    /\ token = "idle"
    /\ replay = "idle"
    /\ assignee = "idle"
    /\ \E flag \in BOOLEAN : project = [has_profiles |-> flag, runs |-> <<>>]

\* a run that a stage ends: _track_outcome(..., outcome=Outcome.INVALID, ...)
InvalidRun ==
    /\ Len(project.runs) < MaxRuns
    /\ \E version \in ProfileVersions :
          project' = _track_outcome_of_project(project, "INVALID", version)
    /\ UNCHANGED <<task_vars, sym, timing, dex, token, replay, assignee>>

\* a run whose profile was inserted: the outcome is tracked unless version is "2"
AcceptedRun ==
    /\ Len(project.runs) < MaxRuns
    /\ \E version \in ProfileVersions :
          project' = IF version # "2"
                     THEN _track_outcome_of_project(project, "ACCEPTED", version)
                     ELSE untracked(project, "ACCEPTED", version)
    /\ UNCHANGED <<task_vars, sym, timing, dex, token, replay, assignee>>

SignalNext == InvalidRun \/ AcceptedRun

SignalSpec == SignalInit /\ [][SignalNext]_vars

\* C21: the first-profile-received signal fires in a run exactly when the run's
\* profile was accepted (whatever its version) and the project's has_profiles flag
\* was unset, so never in a run that ends INVALID, and at most once per project
C21_SignalOnFirstAcceptedOnly ==
    /\ \A i \in 1..Len(project.runs) :
          project.runs[i].signal <=>
             (project.runs[i].outcome = "ACCEPTED" /\ ~project.runs[i].flag_before)
    /\ Cardinality({i \in 1..Len(project.runs) : project.runs[i].signal}) <= 1

----------------------------------------------------------------------------
(* ApiToken: the plaintext secrets kept for one read after creation
   (models/apitoken.py, ApiTokenManager.create 45-92, _plaintext_token 126-142,
   _plaintext_refresh_token 144-169) *)

\* the reads of the two properties that are followed after a creation
MaxReads == 3

\* Python's None among the strings
None == "None"

\* what generate_token() can give: secrets.token_hex(nbytes=32), never empty
GeneratedTokens == {"a1", "b2"}

\* f"{token_type}{generate_token()}" for AuthTokenType.USER
user_token(hex) == IF hex = "a1" THEN "sntryu_a1" ELSE "sntryu_b2"

\* hashlib.sha256(...).hexdigest(), kept apart from the plaintext it hashes
sha256(plaintext) == <<"sha256", plaintext>>

NoHash == <<>>

\* token_type of create's kwargs: AuthTokenType.USER or none given
TokenTypes == {"USER", None}

\* refresh_token of create's kwargs: not specified, None, or a token handed in
RefreshKwargs == {"unspecified", None, "r3"}

\* no ApiToken yet
NoToken ==
    [created |-> FALSE, token |-> None, refresh_token |-> None,
     hashed_token |-> NoHash, hashed_refresh_token |-> NoHash,
     plaintext_token |-> None, plaintext_refresh_token |-> None, reads |-> <<>>]

\* ApiTokenManager.create
create(token_type, refresh_kwarg, save_hash, generated, generated_refresh) ==
    LET given_refresh == IF refresh_kwarg # "unspecified" THEN refresh_kwarg
                         ELSE generated_refresh
        plaintext_token == IF token_type = "USER" THEN user_token(generated)
                           ELSE generated
        plaintext_refresh_token == IF token_type = "USER" THEN None ELSE given_refresh
    IN  [created |-> TRUE,
         token |-> plaintext_token,
         refresh_token |-> plaintext_refresh_token,
         hashed_token |-> IF save_hash THEN sha256(plaintext_token) ELSE NoHash,
         hashed_refresh_token |-> IF plaintext_refresh_token # None
                                  THEN sha256(plaintext_refresh_token) ELSE NoHash,
         plaintext_token |-> plaintext_token,
         plaintext_refresh_token |-> plaintext_refresh_token,
         reads |-> <<>>]

\* _plaintext_token that leaves the plaintext where it is
_plaintext_token_keeping(t) ==
    IF t.plaintext_token # None
    THEN [api_token |-> t, raised |-> FALSE, value |-> t.plaintext_token]
    ELSE [api_token |-> t, raised |-> TRUE, value |-> None]

\* the property _plaintext_token: the token left after the read, whether
\* PlaintextSecretAlreadyRead was raised, and the value returned
_plaintext_token(t) ==
    IF t.plaintext_token # None
    THEN [api_token |-> [t EXCEPT !.plaintext_token = None],
          raised |-> FALSE, value |-> t.plaintext_token]
    ELSE [api_token |-> t, raised |-> TRUE, value |-> None]

\* the property _plaintext_refresh_token (None is the one falsy value here: no
\* refresh token is empty)
_plaintext_refresh_token(t) ==
    LET plaintext_refresh_token == t.plaintext_refresh_token
        cleared == IF plaintext_refresh_token # None
                   THEN [t EXCEPT !.plaintext_refresh_token = None] ELSE t
    IN  IF plaintext_refresh_token = None /\ t.refresh_token # None
        THEN [api_token |-> cleared, raised |-> TRUE, value |-> None]
        ELSE [api_token |-> cleared, raised |-> FALSE, value |-> plaintext_refresh_token]

\* one read of a property, written down
read(attr, got) ==
    [got.api_token EXCEPT !.reads = Append(@, [attr |-> attr, raised |-> got.raised,
                                                value |-> got.value])]

TokenInit ==
    /\ TaskIdle
    /\ sym = "idle"
    /\ timing = "idle"
    /\ dex = "idle"
    /\ project = "idle"
    /\ replay = "idle"
    /\ assignee = "idle"
    /\ token = NoToken

\* ApiToken.objects.create(token_type=..., [refresh_token=...])
CreateToken ==
    /\ ~token.created
    /\ \E token_type \in TokenTypes, refresh_kwarg \in RefreshKwargs, save_hash \in BOOLEAN,
          generated \in GeneratedTokens, generated_refresh \in GeneratedTokens :
          /\ generated # generated_refresh
          /\ token' = create(token_type, refresh_kwarg, save_hash, generated,
                             generated_refresh)
    /\ UNCHANGED <<task_vars, sym, timing, dex, project, replay, assignee>>

\* api_token._plaintext_token
ReadPlaintextToken ==
    /\ token.created
    /\ Len(token.reads) < MaxReads
    /\ token' = read("token", _plaintext_token(token))
    /\ UNCHANGED <<task_vars, sym, timing, dex, project, replay, assignee>>

\* api_token._plaintext_refresh_token
ReadPlaintextRefreshToken ==
    /\ token.created
    /\ Len(token.reads) < MaxReads
    /\ token' = read("refresh_token", _plaintext_refresh_token(token))
    /\ UNCHANGED <<task_vars, sym, timing, dex, project, replay, assignee>>

TokenNext == CreateToken \/ ReadPlaintextToken \/ ReadPlaintextRefreshToken

TokenSpec == TokenInit /\ [][TokenNext]_vars

\* the reads of one property before read i
EarlierReads(i) ==
    {j \in 1..(i - 1) : token.reads[j].attr = token.reads[i].attr}

\* C22: after a creation the first read of _plaintext_token returns the token and
\* clears the plaintext, and every later read raises PlaintextSecretAlreadyRead; the
\* first read of _plaintext_refresh_token returns the refresh token and later ones
\* raise, while for a token without refresh token every read returns None and
\* none raises
C22_PlaintextReadOnce ==
    \A i \in 1..Len(token.reads) :
       LET r == token.reads[i]
           first == EarlierReads(i) = {}
       IN  /\ r.attr = "token" =>
                /\ token.plaintext_token = None
                /\ IF first THEN ~r.raised /\ r.value = token.token ELSE r.raised
           /\ r.attr = "refresh_token" =>
                /\ token.plaintext_refresh_token = None
                /\ IF token.refresh_token = None THEN ~r.raised /\ r.value = None
                   ELSE IF first THEN ~r.raised /\ r.value = token.refresh_token
                   ELSE r.raised

\* a token with a refresh token, both secrets read twice or the token read again
C22_Witness ==
    /\ token.refresh_token # None
    /\ Len(token.reads) = 3
    /\ token.reads[1].attr = "token"
    /\ token.reads[2].attr = "token"
    /\ token.reads[2].raised
    /\ token.reads[3].attr = "refresh_token"
    /\ ~token.reads[3].raised

----------------------------------------------------------------------------
(* The replay viewed-by endpoint
   (replays/endpoints/project_replay_viewed_by.py, get 49-82 and post 95-111;
   api/bases/project.py, get_filter_params 185-199; api/utils.py,
   get_date_range_from_stats_period 183-240) *)

\* a parameter the query string does not carry (params.get gives None)
Absent == "absent"

\* timezone.now() on the scale the dates are counted on
Now == 10

\* MAX_STATS_PERIOD on that scale
MAX_STATS_PERIOD == 9

\* the replay id of the URL as written: 32 hex digits with or without dashes or
\* as a URN, too short, or with a character that is no hex digit
ReplayIdForms == {"dashed", "hex", "urn", "short", "nonhex"}

ReplayIdStrings == [form : ReplayIdForms, hex : {"e1"}]

\* uuid.UUID that takes whatever it is given
uuid_UUID_of_anything(replay_id) == [raised |-> FALSE, hex |-> replay_id.hex]

\* uuid.UUID(replay_id): dashes and the URN prefix are dropped, and what is left
\* has to be 32 hex digits, or ValueError is raised
uuid_UUID(replay_id) ==
    IF replay_id.form \in {"dashed", "hex", "urn"}
    THEN [raised |-> FALSE, hex |-> replay_id.hex]
    ELSE [raised |-> TRUE, hex |-> ""]

\* str(uuid.UUID(...)): the dashed form
str_UUID(parsed) == [form |-> "dashed", hex |-> parsed.hex]

\* parse_stats_period: how far back the period reaches, -1 standing for None
parse_stats_period(stats_period) ==
    CASE stats_period = "3d" -> 3
      [] stats_period = "1d" -> 1
      [] stats_period = "0d" -> 0
      [] OTHER -> -1

StatsPeriods == {Absent, "3d", "0d", "xd"}

RelativePeriods == {Absent, "3d", "1d"}

\* parse_datetime_string: the date, -1 standing for InvalidQuery
parse_datetime_string(s) ==
    CASE s = "t1" -> 1
      [] s = "t2" -> 2
      [] OTHER -> -1

DateStrings == {Absent, "t1", "t2", "yesterday"}

QueryParams ==
    [statsPeriod : StatsPeriods, statsPeriodStart : RelativePeriods,
     statsPeriodEnd : RelativePeriods, start : DateStrings, end : DateStrings]

InvalidParams == [raised |-> TRUE, start |-> 0, end |-> 0]

\* start and end are kept if start is before end
date_range(start, end) ==
    IF start >= end THEN InvalidParams
    ELSE [raised |-> FALSE, start |-> start, end |-> end]

\* get_date_range_from_stats_period with optional=False, as get_date_range_from_params
\* calls it for a query without the timeframe aliases
get_date_range_from_params(params) ==
    LET default_start == Now - MAX_STATS_PERIOD
        default_end == Now
    IN  IF params.statsPeriod # Absent
        THEN IF parse_stats_period(params.statsPeriod) = -1 THEN InvalidParams
             ELSE date_range(Now - parse_stats_period(params.statsPeriod), default_end)
        ELSE IF params.statsPeriodStart # Absent \/ params.statsPeriodEnd # Absent
        THEN IF params.statsPeriodStart = Absent \/ params.statsPeriodEnd = Absent
             THEN InvalidParams
             ELSE date_range(Now - parse_stats_period(params.statsPeriodStart),
                             Now - parse_stats_period(params.statsPeriodEnd))
        ELSE IF params.start # Absent \/ params.end # Absent
        THEN IF params.start = Absent \/ params.end = Absent THEN InvalidParams
             ELSE IF parse_datetime_string(params.start) = -1
                     \/ parse_datetime_string(params.end) = -1
             THEN InvalidParams
             ELSE date_range(parse_datetime_string(params.start),
                             parse_datetime_string(params.end))
        ELSE date_range(default_start, default_end)

\* ProjectEndpoint.get_filter_params: InvalidParams becomes ProjectEventsError
get_filter_params(params) == get_date_range_from_params(params)

Requests ==
    [method : {"GET", "POST"}, feature : BOOLEAN, replay_id : ReplayIdStrings,
     params : QueryParams, found : BOOLEAN]

NoResponse == [handled |-> FALSE, status |-> 0, raised |-> "none"]

Response(status) == [handled |-> TRUE, status |-> status, raised |-> "none"]

\* the exception leaves the handler: no Response is returned
Raised(exception) == [handled |-> TRUE, status |-> 0, raised |-> exception]

\* ProjectReplayViewedByEndpoint.get; request.found is what
\* query_replay_viewed_by_ids answers when it is asked
get(request) ==
    IF ~request.feature THEN Response(404)
    ELSE IF uuid_UUID(request.replay_id).raised THEN Response(404)
    ELSE IF get_filter_params(request.params).raised THEN Raised("ProjectEventsError")
    ELSE IF ~request.found THEN Response(404)
    ELSE Response(200)

\* ProjectReplayViewedByEndpoint.post: the response and the events published
post(request) ==
    IF ~request.feature THEN [response |-> Response(404), published |-> <<>>]
    ELSE IF uuid_UUID(request.replay_id).raised
    THEN [response |-> Response(404), published |-> <<>>]
    ELSE [response |-> Response(204),
          published |-> <<[type |-> "replay_viewed",
                           replay_id |-> str_UUID(uuid_UUID(request.replay_id))]>>]

ReplayInit ==
    /\ TaskIdle
    /\ sym = "idle"
    /\ timing = "idle"
    /\ dex = "idle"
    /\ project = "idle"
    /\ token = "idle"
    /\ assignee = "idle"
    /\ \E request \in Requests :
          replay = [request |-> request, response |-> NoResponse, published |-> <<>>]

Get ==
    /\ ~replay.response.handled
    /\ replay.request.method = "GET"
    /\ replay' = [replay EXCEPT !.response = get(replay.request)]
    /\ UNCHANGED <<task_vars, sym, timing, dex, project, token, assignee>>

Post ==
    /\ ~replay.response.handled
    /\ replay.request.method = "POST"
    /\ replay' = [replay EXCEPT !.response = post(replay.request).response,
                                !.published = post(replay.request).published]
    /\ UNCHANGED <<task_vars, sym, timing, dex, project, token, assignee>>

ReplayNext == Get \/ Post

ReplaySpec == ReplayInit /\ [][ReplayNext]_vars

\* the replay id of the request is a UUID as Python reads one
ValidReplayId == replay.request.replay_id.form \in {"dashed", "hex", "urn"}

\* the date parameters of the request give a range with start before end
ValidDates ==
    LET p == replay.request.params
        back(s) == Now - parse_stats_period(s)
    IN  IF p.statsPeriod # Absent THEN p.statsPeriod = "3d"
        ELSE IF p.statsPeriodStart # Absent \/ p.statsPeriodEnd # Absent
        THEN /\ p.statsPeriodStart # Absent
             /\ p.statsPeriodEnd # Absent
             /\ back(p.statsPeriodStart) < back(p.statsPeriodEnd)
        ELSE IF p.start # Absent \/ p.end # Absent
        THEN p.start = "t1" /\ p.end = "t2"
        ELSE TRUE

\* POST as the claim has it: 204 and one replay-viewed event with the feature and
\* a valid id, 404 and nothing published otherwise
PostAnswered ==
    (replay.response.handled /\ replay.request.method = "POST") =>
       IF replay.request.feature /\ ValidReplayId
       THEN /\ replay.response = Response(204)
            /\ Len(replay.published) = 1
            /\ replay.published[1].type = "replay_viewed"
            /\ replay.published[1].replay_id.hex = replay.request.replay_id.hex
       ELSE /\ replay.response = Response(404)
            /\ replay.published = <<>>

----------------------------------------------------------------------------
(* GroupAssignee: the assignee rows of one group under assign and deassign
   (models/groupassignee.py, get_assignee_data 51-67, assign 69-134,
   deassign 136-216, GroupAssignee 220-257) *)

\* the calls of assign and deassign that are followed
MaxCalls == 5

\* who a group can be assigned to: users and teams, whose ids may coincide
Actors == [type : {"user", "team"}, id : {"1", "2"}]

\* get_assignee_data: assignee_type, assignee_type_attr and other_type
get_assignee_data(assigned_to) ==
    IF assigned_to.type = "user"
    THEN [assignee_type |-> "user", assignee_type_attr |-> "user_id", other_type |-> "team_id"]
    ELSE [assignee_type |-> "team", assignee_type_attr |-> "team_id", other_type |-> "user_id"]

\* get_or_create that does not look for the group's row
get_or_create_without_get(rows, defaults) ==
    [rows |-> Append(rows, defaults), created |-> TRUE]

\* self.get_or_create(group=group, defaults=...): the group's row if there is one,
\* or else a new row of the defaults, which GroupAssignee.save lets through as it
\* has one of user_id and team_id
get_or_create(rows, defaults) ==
    IF rows # <<>> THEN [rows |-> rows, created |-> FALSE]
    ELSE [rows |-> Append(rows, defaults), created |-> TRUE]

\* GroupAssigneeManager.assign
assign(a, assigned_to, create_only, force_autoassign) ==
    LET data == get_assignee_data(assigned_to)
        attr == data.assignee_type_attr
        other == data.other_type
        row == [[user_id |-> None, team_id |-> None] EXCEPT ![attr] = assigned_to.id]
        got == get_or_create(a.rows, row)
        \* .filter(group=group).exclude(attr=id).update(attr=id, other_type=None)
        excluded(r) == r[attr] = assigned_to.id
        updated == Cardinality({i \in 1..Len(got.rows) : ~excluded(got.rows[i])})
        rows_updated == [i \in 1..Len(got.rows) |->
                            IF excluded(got.rows[i]) THEN got.rows[i]
                            ELSE [got.rows[i] EXCEPT ![attr] = assigned_to.id,
                                                     ![other] = None]]
        affected == IF got.created THEN TRUE
                    ELSE ~create_only /\ (updated > 0 \/ force_autoassign)
    IN  [rows |-> IF got.created \/ create_only THEN got.rows ELSE rows_updated,
         activity |-> IF affected THEN Append(a.activity, "ASSIGNED") ELSE a.activity,
         result |-> [op |-> "assign", new_assignment |-> got.created,
                     updated_assignment |-> ~got.created /\ affected],
         calls |-> a.calls + 1]

\* GroupAssigneeManager.deassign
deassign(a, participants_purge, assigned_to_given) ==
    LET affected == IF a.rows = <<>> THEN 0 ELSE 1
    IN  [rows |-> <<>>,
         activity |-> IF affected = 0 THEN a.activity
                      ELSE IF participants_purge /\ assigned_to_given
                      THEN Append(a.activity, "ASSIGNED")
                      ELSE Append(a.activity, "UNASSIGNED"),
         result |-> [op |-> "deassign", new_assignment |-> FALSE,
                     updated_assignment |-> FALSE],
         calls |-> a.calls + 1]

AssigneeInit ==
    /\ TaskIdle
    /\ sym = "idle"
    /\ timing = "idle"
    /\ dex = "idle"
    /\ project = "idle"
    /\ token = "idle"
    /\ replay = "idle"
    /\ assignee = [rows |-> <<>>, activity |-> <<>>,
                   result |-> [op |-> "none", new_assignment |-> FALSE,
                               updated_assignment |-> FALSE],
                   calls |-> 0]

\* GroupAssignee.objects.assign(group, assigned_to, create_only=..., force_autoassign=...)
Assign ==
    /\ assignee.calls < MaxCalls
    /\ \E assigned_to \in Actors, create_only \in BOOLEAN, force_autoassign \in BOOLEAN :
          assignee' = assign(assignee, assigned_to, create_only, force_autoassign)
    /\ UNCHANGED <<task_vars, sym, timing, dex, project, token, replay>>

\* GroupAssignee.objects.deassign(group, assigned_to=...)
Deassign ==
    /\ assignee.calls < MaxCalls
    /\ \E participants_purge \in BOOLEAN, assigned_to_given \in BOOLEAN :
          assignee' = deassign(assignee, participants_purge, assigned_to_given)
    /\ UNCHANGED <<task_vars, sym, timing, dex, project, token, replay>>

AssigneeNext == Assign \/ Deassign

AssigneeSpec == AssigneeInit /\ [][AssigneeNext]_vars

\* C30: after any sequence of assign and deassign calls the group has at most one
\* assignee row, the row has exactly one of user_id and team set, and assign never
\* reports new_assignment and updated_assignment both true
C30_OneAssigneeOfOneKind ==
    /\ Len(assignee.rows) <= 1
    /\ \A i \in 1..Len(assignee.rows) :
          (assignee.rows[i].user_id = None) # (assignee.rows[i].team_id = None)
    /\ ~(assignee.result.new_assignment /\ assignee.result.updated_assignment)

\* a group assigned to a user and then over to the team of the same id
C30_Witness ==
    /\ assignee.rows = <<[user_id |-> None, team_id |-> "1"]>>
    /\ assignee.result.op = "assign"
    /\ assignee.result.updated_assignment
    /\ assignee.activity = <<"ASSIGNED", "ASSIGNED">>

====
